---- MODULE Spec2Model ----
(***************************************************************************)
(* Model of the time-duration analysis engine of BotValorAgregado:         *)
(*   - excel_processor.process_excel_file (the Tk/PDF pipeline),          *)
(*     main.process_data, which turns its result into a report, and the    *)
(*     status line gui.process_file sets around it,                        *)
(*   - data_loader / time_analyzer (the Qt pipeline: clean_time_data,      *)
(*     calculate_service_duration, the two aggregations and                *)
(*     identify_anomalies),                                                *)
(*   - TimeAnalysisWindow.load_excel_file / analyze_time_data, and         *)
(*     export_to_pdf with its PDFExportThread worker and callbacks.        *)
(*                                                                         *)
(* A table (DataFrame) is [cols, rows]: the set of column names present    *)
(* and the sequence of rows.  A timestamp cell is [fmt, t]: the textual    *)
(* encoding of the cell and the minute of the day it denotes.  A parsed    *)
(* instant is [nat, t, aware]; a float cell is [nan, v].                   *)
(***************************************************************************)
EXTENDS Integers, Sequences, FiniteSets, TLC

\* ------------------------------------------------------------------ bounds
MaxRows == 2
MaxT == 1
MaxRowsA == 4
MaxTA == 2
MaxRowsW == 1
MaxRowsF == 2
MaxRowsAf == 2
MaxExports == 2
MaxClicks == 2

\* --------------------------------------------------------- column names
ColTech == "Nombre del oficial técnico que brinda servicio"
ColLlegada == "Hora de llegada"
ColSalida == "Hora de salida"
ColModelo == "Terminal - Modelo"
ColModeloDeTerminal == "Modelo de Terminal"
ColModeloInfix == "POS Terminal - Modelo (serie)"
ColAfiliado == "Nombre del Afiliado"
ColFecha == "Fecha de Reporte"
ColDuracion == "Duración (minutos)"

\* ------------------------------------------------------------ cell values
\* an empty spreadsheet cell of a key column (pandas NaN)
NoKey == "NaN"
\* technician / terminal-model keys, in the order pandas sorts them
Keys == <<"A", "B">>
KeySet == {Keys[i] : i \in 1..Len(Keys)}

\* a timestamp cell: the encoding it is written in and the minute it stands
\* for
\*   "null" empty cell, "bad" = 'xx', a text no parser accepts,
\*   "12z" = '03:22 PM GMT-06:00', "12" = '03:22 PM', "24" = '15:22',
\*   "gen" = '15:22:00', a text only dateutil reads, "dt" = native datetime
NullCell == [fmt |-> "null", t |-> 0]
BadCell == [fmt |-> "bad", t |-> 0]
TimeCell(f, t) == [fmt |-> f, t |-> t]
IsNullCell(c) == c.fmt = "null"

\* ---- the text a cell of a timestamp column holds
Digits == <<"0", "1", "2", "3", "4", "5", "6", "7", "8", "9">>
Ch(s, i) == SubSeq(s, i, i)
\* the minute of the day on the 12-hour clock, '03:22 PM', and on the
\* 24-hour clock, '15:22', each number written with two digits
CellText(c) ==
    LET TwoDigits(n) == Digits[(n \div 10) + 1] \o Digits[(n % 10) + 1]
        h == (c.t \div 60) % 24
        h12 == IF h % 12 = 0 THEN 12 ELSE h % 12
        Text12 == TwoDigits(h12) \o ":" \o TwoDigits(c.t % 60) \o " "
                     \o (IF h < 12 THEN "AM" ELSE "PM")
        Text24 == TwoDigits(h) \o ":" \o TwoDigits(c.t % 60)
    IN CASE c.fmt = "12z" -> Text12 \o " GMT-06:00"
         [] c.fmt = "12" -> Text12
         [] c.fmt = "24" -> Text24
         [] c.fmt = "gen" -> Text24 \o ":00"
         [] c.fmt = "bad" -> "xx"

\* parsed instants: minutes since 1900-01-01 00:00, NaT when unparsable; a
\* tz-aware instant is kept in UTC, a naive one as its wall time
NaT == [nat |-> TRUE, t |-> 0, aware |-> FALSE]
Instant(t, aware) == [nat |-> FALSE, t |-> t, aware |-> aware]
\* strptime with a time-only format yields the date 1900-01-01; the
\* format-less parser (dateutil) fills in the current date instead; the
\* current date is taken 100 days after 1900-01-01 to keep sums of seconds
\* within 32 bits (only its being later than 1900-01-01 matters)
MinutesPerDay == 24 * 60
TodayOffset == 100 * MinutesPerDay

\* float cells
NaN == [nan |-> TRUE, v |-> 0]
Num(v) == [nan |-> FALSE, v |-> v]

\* ------------------------------------------------------- sequence helpers
RECURSIVE SumSeq(_)
SumSeq(s) == IF s = <<>> THEN 0 ELSE Head(s) + SumSeq(Tail(s))

RECURSIVE MinSeq(_)
MinSeq(s) == IF Len(s) = 1 THEN s[1]
             ELSE LET m == MinSeq(Tail(s)) IN IF s[1] <= m THEN s[1] ELSE m

RECURSIVE MaxSeq(_)
MaxSeq(s) == IF Len(s) = 1 THEN s[1]
             ELSE LET m == MaxSeq(Tail(s)) IN IF s[1] >= m THEN s[1] ELSE m

\* sort keys are fractions [nan, num, den] (den > 0); NaN sorts last
IntKey(n) == [nan |-> FALSE, num |-> n, den |-> 1]
KeyLess(a, b) ==
    IF a.nan THEN FALSE
    ELSE IF b.nan THEN TRUE
    ELSE a.num * b.den < b.num * a.den

\* stable insertion of the pair x = [key, val] into a sequence of pairs
\* already sorted by key: x goes after every pair whose key is <= x.key
RECURSIVE InsertSorted(_, _)
InsertSorted(s, x) ==
    IF s = <<>> THEN <<x>>
    ELSE IF KeyLess(x.key, s[1].key) THEN <<x>> \o s
    ELSE <<s[1]>> \o InsertSorted(Tail(s), x)

\* list.sort(key=...) / sort_values: ascending sort of [key, val] pairs that
\* keeps the input order of equal keys
RECURSIVE SortPairs(_)
SortPairs(s) ==
    IF s = <<>> THEN <<>>
    ELSE InsertSorted(SortPairs(SubSeq(s, 1, Len(s) - 1)), s[Len(s)])

Vals(pairs) == [i \in 1..Len(pairs) |-> pairs[i].val]

Abs(x) == IF x < 0 THEN -x ELSE x

\* ------------------------------------------------------------------ state
VARIABLES
    df,            \* the table read from the spreadsheet (pd.read_excel)
    pc,            \* position of the running pipeline
    df_filtered,   \* process_excel_file: rows of the working set
    affiliates_data, \* process_excel_file: the affiliate list
    result,        \* process_excel_file: the returned dictionary
    error,         \* the exception raised, NoError when none
    rowWork,       \* row-level steps executed so far (sentinel)
    df_clean,      \* data_loader: table returned by clean_time_data
    df_result,     \* time_analyzer: table returned by calculate_service_duration
    avg_by_tech,   \* time_analyzer: rows of get_average_duration_by_technician
    avg_by_model,  \* time_analyzer: rows of get_average_duration_by_terminal_model
    anomalies,     \* time_analyzer: rows of identify_anomalies
    threshold_factor, \* identify_anomalies: k as the fraction <<num, den>>
    self_df,       \* TimeAnalysisWindow.self.df
    load_button,   \* TimeAnalysisWindow: load button enabled
    export_pdf_button, \* TimeAnalysisWindow: export button enabled
    tabs,          \* TimeAnalysisWindow: the table the four tabs were last updated with
    last_load,     \* TimeAnalysisWindow: what the last load_excel_file call did:
                   \* its outcome, the columns of the file, the row-level steps run
    pdf_threads,   \* the PDFExportThread workers whose callback has not run yet
    exports,       \* TimeAnalysisWindow: the exports started, finished and failed
    attempts,      \* process_excel_file: per time column, the conversions tried in order
    report,        \* main.process_data: what the call ended with
    status_var,    \* gui.create_main_window: the text of the status line
    progress_var,  \* gui.create_main_window: the value of the progress bar
    pf_running,    \* gui.process_file: a call of the handler is under way
    pf_stack,      \* gui.process_file: the calls suspended in root.update() while
                   \* a later click is handled, innermost first: where each one is
    reset_timers,  \* gui.process_file: the root.after(3000, ...) timers not yet fired
    clicks_left    \* how many more runs of process_file the user starts

pefVars == <<df_filtered, affiliates_data, result, rowWork>>
anVars == <<df_clean, df_result, avg_by_tech, avg_by_model, anomalies, threshold_factor>>
winVars == <<self_df, load_button, export_pdf_button, tabs, last_load, pdf_threads, exports>>
pdVars == <<attempts, report, status_var, progress_var, pf_running, pf_stack,
           reset_timers, clicks_left>>
vars == <<df, pc, error, pefVars, anVars, winVars, pdVars>>

NoError == [kind |-> "none", columns |-> <<>>]
NoResult == [returned |-> FALSE, officers |-> <<>>, has_operational_data |-> FALSE,
             affiliates |-> <<>>]
NoTable == [cols |-> {}, rows |-> <<>>]

\* ----------------------------------------------------------- data frames
\* 'pat' in name: the text pat occurs in the column name
Contains(name, pat) ==
    \E i \in 1..(Len(name) - Len(pat) + 1) : SubSeq(name, i, i + Len(pat) - 1) = pat

\* time_analyzer.py lines 56-60: the columns whose name contains
\* 'Terminal - Modelo', or when there is none the columns whose name contains
\* 'Modelo de Terminal'. Line 66 takes the first of them in column order;
\* the field modelo of a row holds the cell of that column
terminal_columns(cols) ==
    LET named == {c \in cols : Contains(c, "Terminal - Modelo")}
    IN IF named # {} THEN named
       ELSE {c \in cols : Contains(c, "Modelo de Terminal")}

\* the cell of a raw row under a column name
CellOf(row, col) ==
    CASE col = ColTech -> row.tech
      [] col = ColLlegada -> row.llegada
      [] col = ColSalida -> row.salida
      [] col = ColModelo -> row.modelo
      [] col = ColAfiliado -> row.afiliado
      [] col = ColFecha -> row.fecha

KeyColumns == {ColTech, ColModelo, ColAfiliado}

\* pd.isna of a raw cell
IsNa(row, col) ==
    IF col \in KeyColumns THEN CellOf(row, col) = NoKey
    ELSE IsNullCell(CellOf(row, col))

\* DataFrame.dropna(subset=cols): keep the rows with no empty cell in cols
DropNa(rows, cols) ==
    SelectSeq(rows, LAMBDA r : \A c \in cols : ~IsNa(r, c))

\* ------------------------------------------------- process_excel_file
required_columns == <<ColTech, ColLlegada, ColSalida>>

RequiredSet == {required_columns[i] : i \in 1..Len(required_columns)}

\* the columns of required_columns absent from the table, in list order
MissingColumns(cols, required) ==
    SelectSeq(required, LAMBDA c : c \notin cols)

\* the error of "for col in required_columns: if col not in df.columns: raise":
\* the loop raises at the first absent column and names only that one
FirstMissingError(cols) ==
    [kind |-> "ValueError", columns |-> <<Head(MissingColumns(cols, required_columns))>>]

\* "except Exception as e: raise Exception(f'Error al procesar ...: {e}')":
\* the wrapper keeps the text of the inner message
Wrapped(e) == [kind |-> "Exception", columns |-> e.columns]

\* pd.api.types.is_datetime64_any_dtype of a column of cells
IsDatetimeDtype(cells) ==
    /\ cells # <<>>
    /\ \A i \in 1..Len(cells) : cells[i].fmt = "dt"

\* ---- reading a text, character by character
\* Only the spellings CellText writes are read: two-digit hours and
\* minutes, one blank, upper-case AM or PM, an offset as '-06:00'. On a text
\* in any other spelling the readings below are left undefined.
\* a text of two digits and the number it writes
IsNumber2(s) ==
    /\ Len(s) = 2
    /\ \A i \in 1..2 : \E d \in 1..10 : Digits[d] = Ch(s, i)
Number2(s) ==
    LET DigitVal(ch) == (CHOOSE d \in 1..10 : Digits[d] = ch) - 1
    IN 10 * DigitVal(Ch(s, 1)) + DigitVal(Ch(s, 2))

\* the text is written as CellText writes a 12-hour time of day: '03:22 PM'
Written12(s) ==
    /\ Len(s) = 8
    /\ IsNumber2(SubSeq(s, 1, 2)) /\ Number2(SubSeq(s, 1, 2)) \in 1..12
    /\ Ch(s, 3) = ":"
    /\ IsNumber2(SubSeq(s, 4, 5)) /\ Number2(SubSeq(s, 4, 5)) \in 0..59
    /\ Ch(s, 6) = " "
    /\ SubSeq(s, 7, 8) \in {"AM", "PM"}
\* the minute of the day '%I:%M %p' reads in such a text: 12 AM is hour 0,
\* 12 PM hour 12
Wall12(s) ==
    CASE Written12(s) ->
        (Number2(SubSeq(s, 1, 2)) % 12) * 60 + Number2(SubSeq(s, 4, 5))
            + (IF SubSeq(s, 7, 8) = "PM" THEN 12 * 60 ELSE 0)

\* the text is written as CellText writes a 24-hour time of day: '15:22'
Written24(s) ==
    /\ Len(s) = 5
    /\ IsNumber2(SubSeq(s, 1, 2)) /\ Number2(SubSeq(s, 1, 2)) \in 0..23
    /\ Ch(s, 3) = ":"
    /\ IsNumber2(SubSeq(s, 4, 5)) /\ Number2(SubSeq(s, 4, 5)) \in 0..59
\* the minute of the day '%H:%M' reads in such a text
Wall24(s) ==
    CASE Written24(s) -> Number2(SubSeq(s, 1, 2)) * 60 + Number2(SubSeq(s, 4, 5))

\* the text is a signed offset of less than a day written with a colon,
\* '-06:00'
WrittenOffset(s) ==
    /\ Len(s) = 6
    /\ Ch(s, 1) \in {"+", "-"}
    /\ IsNumber2(SubSeq(s, 2, 3)) /\ Number2(SubSeq(s, 2, 3)) \in 0..23
    /\ Ch(s, 4) = ":"
    /\ IsNumber2(SubSeq(s, 5, 6)) /\ Number2(SubSeq(s, 5, 6)) \in 0..59
\* the minutes '%z' reads in such a text, the local time being that much
\* ahead of UTC
OffsetOf(s) ==
    CASE WrittenOffset(s) ->
        (IF Ch(s, 1) = "-" THEN -1 ELSE 1)
            * (Number2(SubSeq(s, 2, 3)) * 60 + Number2(SubSeq(s, 5, 6)))

\* the text is written as CellText writes a 12-hour time of day with an
\* offset: '03:22 PM GMT-06:00'
Written12z(s) ==
    /\ Len(s) = 18
    /\ Written12(SubSeq(s, 1, 8))
    /\ SubSeq(s, 9, 12) = " GMT"
    /\ WrittenOffset(SubSeq(s, 13, 18))

\* the text is written as a time of day with seconds, '15:22:00'; the texts
\* carry whole minutes
WrittenHMS(s) ==
    /\ Len(s) = 8
    /\ Written24(SubSeq(s, 1, 5))
    /\ SubSeq(s, 6, 8) = ":00"

\* whether the format of line 50, 54 or 58, named by its encoding, matches
\* the whole text: a text in one of the three spellings matches the format
\* of its own spelling and no other; a time of day with seconds and the
\* unreadable text 'xx' match none
StrptimeMatches(s, f) ==
    CASE Written12z(s) -> f = "12z"
      [] Written12(s) -> f = "12"
      [] Written24(s) -> f = "24"
      [] WrittenHMS(s) \/ s = "xx" -> FALSE

\* strptime with one of the formats on a text it matches: the time of day on
\* 1900-01-01; '%z' takes the offset as written, local = UTC + offset
Strptime(s, f) ==
    CASE f = "12z" -> Instant(Wall12(SubSeq(s, 1, 8)) - OffsetOf(SubSeq(s, 13, 18)), TRUE)
      [] f = "12" -> Instant(Wall12(s), FALSE)
      [] f = "24" -> Instant(Wall24(s), FALSE)

\* dateutil.parser.parse on a text of a time of day: the current date is
\* filled in; the text 'xx', which it cannot read, becomes NaT under
\* errors='coerce'. The offset after 'GMT' is read the POSIX way, with the
\* opposite sign: 'GMT-06:00' is taken as six hours ahead of UTC
DateutilParse(s) ==
    CASE Written12z(s) ->
            Instant(TodayOffset + Wall12(SubSeq(s, 1, 8)) + OffsetOf(SubSeq(s, 13, 18)), TRUE)
      [] Written12(s) -> Instant(TodayOffset + Wall12(s), FALSE)
      [] Written24(s) -> Instant(TodayOffset + Wall24(s), FALSE)
      [] WrittenHMS(s) -> Instant(TodayOffset + Wall24(SubSeq(s, 1, 5)), FALSE)
      [] s = "xx" -> NaT

\* what each way of reading makes of the text of a cell: with a format,
\* ValueError or the instant; without one, the instant or NaT
ReadingsOfText(s) ==
    [strptime |-> [f \in {"12z", "12", "24"} |->
                      IF StrptimeMatches(s, f)
                      THEN [raised |-> FALSE, value |-> Strptime(s, f)]
                      ELSE [raised |-> TRUE, value |-> NaT]],
     coerce |-> DateutilParse(s)]

\* the readings of every text cell, worked out once
TimeReadings ==
    [f \in {"12z", "12", "24", "gen", "bad"} |->
        [t \in IF f = "bad" THEN {0} ELSE 0..(MinutesPerDay - 1) |->
            ReadingsOfText(CellText(TimeCell(f, t)))]]
Reading(c, f) == TimeReadings[c.fmt][c.t].strptime[f]

\* pd.to_datetime(column, errors='coerce') with no format, cell by cell: no
\* format can be guessed for a time of day, so each text goes to dateutil and
\* what it cannot read becomes NaT; an empty cell is NaT, a native datetime
\* is kept
Coerce(c) ==
    CASE c.fmt = "null" -> NaT
      [] c.fmt = "dt" -> Instant(c.t, FALSE)
      [] OTHER -> TimeReadings[c.fmt][c.t].coerce

\* pd.to_datetime(column, format=f, errors='raise'): ValueError as soon as one
\* text does not match the format, else the parsed column
to_datetime(cells, f) ==
    LET RaiseOrReturn(readings) ==
            IF \A i \in 1..Len(readings) : ~readings[i].raised
            THEN [raised |-> FALSE,
                  values |-> [i \in 1..Len(readings) |-> readings[i].value]]
            ELSE [raised |-> TRUE, values |-> <<>>]
    IN RaiseOrReturn([i \in 1..Len(cells) |-> Reading(cells[i], f)])

\* lines 48-61: the nested try/except of one column. Each level is entered
\* only in the except branch of the level before; the last level coerces.
\* Under coercion a column of texts with and without an offset comes back as
\* a column of objects, each cell with its own awareness
ToDatetimeChain(cells) ==
    LET FirstToReturn(r, coerced) ==
            IF ~r["12z"].raised
            THEN [tried |-> <<"12z">>, values |-> r["12z"].values]
            ELSE IF ~r["12"].raised
            THEN [tried |-> <<"12z", "12">>, values |-> r["12"].values]
            ELSE IF ~r["24"].raised
            THEN [tried |-> <<"12z", "12", "24">>, values |-> r["24"].values]
            ELSE [tried |-> <<"12z", "12", "24", "coerce">>, values |-> coerced]
    IN FirstToReturn([f \in {"12z", "12", "24"} |-> to_datetime(cells, f)],
                     [i \in 1..Len(cells) |-> Coerce(cells[i])])

\* mutant: the column goes straight to coercion
ToDatetimeColumnCoerced(cells) ==
    IF IsDatetimeDtype(cells) THEN [i \in 1..Len(cells) |-> Instant(cells[i].t, FALSE)]
    ELSE [i \in 1..Len(cells) |-> Coerce(cells[i])]
\* lines 45-61 applied to one column: a datetime column is left as it is
ToDatetimeColumn(cells) ==
    IF IsDatetimeDtype(cells) THEN [i \in 1..Len(cells) |-> Instant(cells[i].t, FALSE)]
    ELSE ToDatetimeChain(cells).values

\* the conversions lines 45-61 try on one column, in the order tried
NoAttempts == [c \in {ColLlegada, ColSalida} |-> <<>>]
Attempts(cells) ==
    IF IsDatetimeDtype(cells) THEN <<>> ELSE ToDatetimeChain(cells).tried

Column(rows, col) == [i \in 1..Len(rows) |-> CellOf(rows[i], col)]

\* lines 45-61: both timestamp columns converted
ToDatetimeRows(rows) ==
    LET a == ToDatetimeColumn(Column(rows, ColLlegada))
        d == ToDatetimeColumn(Column(rows, ColSalida))
    IN [i \in 1..Len(rows) |-> [rows[i] EXCEPT !.llegada = a[i], !.salida = d[i]]]

\* line 64: dropna(subset=['Hora de llegada', 'Hora de salida']) on instants
DropNaT(rows) == SelectSeq(rows, LAMBDA r : ~r.llegada.nat /\ ~r.salida.nat)

\* the dtype of a converted column is tz-aware when its parsed cells carry
\* an offset; the dtype stays when rows are dropped
IsAware(cells) == \E i \in 1..Len(cells) : ~cells[i].nat /\ cells[i].aware

\* a converted column holding aware and naive instants is a column of
\* objects (dtype object), not a datetime64 column
IsObjectColumn(cells) ==
    /\ \E i \in 1..Len(cells) : ~cells[i].nat /\ cells[i].aware
    /\ \E i \in 1..Len(cells) : ~cells[i].nat /\ ~cells[i].aware

\* 'Hora de salida' - 'Hora de llegada' raises TypeError (line 67). Two
\* datetime64 columns: when one is tz-aware and the other tz-naive, whatever
\* the rows. A column of objects minus a datetime64 column: always, the
\* subtraction is not defined. A datetime64 column or a column of objects
\* minus a column of objects: the subtraction is made row by row, on the
\* rows line 64 kept, and raises for an aware instant paired with a naive one
TzMismatch(rows) ==
    LET a == Column(rows, ColLlegada)
        d == Column(rows, ColSalida)
        RowMismatch == \E i \in 1..Len(rows) : /\ ~a[i].nat /\ ~d[i].nat
                                                /\ a[i].aware # d[i].aware
    IN IF IsObjectColumn(a) THEN RowMismatch
       ELSE IF IsObjectColumn(d) THEN TRUE
       ELSE IsAware(a) # IsAware(d)

\* line 67: 'Tiempo de estadía' = 'Hora de salida' - 'Hora de llegada' (minutes)
WithEstadia(rows) ==
    [i \in 1..Len(rows) |->
        [tech |-> rows[i].tech, llegada |-> rows[i].llegada, salida |-> rows[i].salida,
         estadia |-> rows[i].salida.t - rows[i].llegada.t]]

\* mutant: any non-zero stay counts as valid
EsTiempoValidoNoNulo(segundos) == segundos # 0
\* line 111: es_tiempo_valido = segundos_estadia > 0
EsTiempoValido(segundos) == segundos > 0

\* lines 113-120: the readable text of a stay, as its parts:
\* "-H horas, M minutos (anomalía)" when negative, "H horas, M minutos" otherwise
TiempoTexto(segundos) ==
    [anomalia |-> segundos < 0,
     horas |-> Abs(segundos) \div 3600,
     minutos |-> (Abs(segundos) % 3600) \div 60]

\* lines 107-130: the record_entry of one row of the working set
RecordEntry(row) ==
    LET segundos_estadia == row.estadia * 60
    IN [llegada |-> row.llegada,
        salida |-> row.salida,
        tiempo |-> TiempoTexto(segundos_estadia),
        segundos |-> segundos_estadia,
        valido |-> EsTiempoValido(segundos_estadia)]

\* "N/A", or "H horas, M minutos" of a number of seconds given as num/den
NA == [na |-> TRUE, horas |-> 0, minutos |-> 0]
HorasMinutos(num, den) ==
    [na |-> FALSE, horas |-> num \div (3600 * den), minutos |-> (num \div (60 * den)) % 60]

\* lines 101-163: the entry of one officer from the rows of its group
OfficerEntry(officer, group) ==
    LET entries == [i \in 1..Len(group) |-> RecordEntry(group[i])]
        valid_records_seconds ==
            LET v == SelectSeq(entries, LAMBDA e : e.valido)
            IN [i \in 1..Len(v) |-> v[i].segundos]
        records == Vals(SortPairs([i \in 1..Len(entries) |->
                        [key |-> IntKey(entries[i].llegada.t), val |-> entries[i]]]))
        total_valid_records == Len(valid_records_seconds)
        total_seconds == SumSeq(valid_records_seconds)
    IN [officer |-> officer,
        records |-> records,
        total_records |-> Len(records),
        valid_records |-> total_valid_records,
        avg_time |-> IF total_valid_records > 0
                     THEN HorasMinutos(total_seconds, total_valid_records) ELSE NA,
        total_time |-> IF total_valid_records > 0
                       THEN HorasMinutos(total_seconds, 1) ELSE NA]

\* line 133: records.sort(key=arrival) compares the arrivals of one officer;
\* comparing an aware instant with a naive one raises TypeError
SortRaises(rows) ==
    \E i, j \in 1..Len(rows) :
        /\ rows[i].tech = rows[j].tech
        /\ rows[i].llegada.aware # rows[j].llegada.aware

\* the group key of a row under a key column
KeyOf(row, col) == IF col = ColTech THEN row.tech ELSE row.modelo

\* groupby(column): the distinct non-empty keys in sorted order
GroupKeys(rows, col) ==
    SelectSeq(Keys, LAMBDA k : \E i \in 1..Len(rows) : KeyOf(rows[i], col) = k)

\* mutant: the rows with a stay that is not positive are left out of the groups
OfficerEntriesValidOnly(rows) ==
    LET ks == GroupKeys(rows, ColTech)
    IN [i \in 1..Len(ks) |->
          OfficerEntry(ks[i], SelectSeq(rows, LAMBDA r : r.tech = ks[i] /\ r.estadia > 0))]
\* line 101: one entry per officer, in the order groupby yields the groups
OfficerEntries(rows) ==
    LET ks == GroupKeys(rows, ColTech)
    IN [i \in 1..Len(ks) |->
          OfficerEntry(ks[i], SelectSeq(rows, LAMBDA r : r.tech = ks[i]))]

\* lines 71-96: the affiliate list, from the raw table
NoEspecificado == [text |-> "No especificado", day |-> 0]
NoEspecificada == [text |-> "No especificada", day |-> 0]
DefaultAffiliates == <<[afiliado |-> "No especificado", fecha |-> NoEspecificada]>>

\* drop_duplicates(): the first occurrence of every row is kept
RECURSIVE DropDuplicates(_)
DropDuplicates(s) ==
    IF s = <<>> THEN <<>>
    ELSE LET init == SubSeq(s, 1, Len(s) - 1)
             rest == DropDuplicates(init)
         IN IF \E i \in 1..Len(init) : init[i] = s[Len(s)] THEN rest
            ELSE Append(rest, s[Len(s)])

\* to_datetime(errors='coerce').dt.strftime('%d/%m/%Y') then fillna
FechaTexto(c) ==
    IF Coerce(c).nat THEN NoEspecificado ELSE [text |-> "%d/%m/%Y", day |-> c.t]

Affiliates(table) ==
    IF ColAfiliado \in table.cols /\ ColFecha \in table.cols
    THEN LET pairs == [i \in 1..Len(table.rows) |->
                          [afiliado |-> table.rows[i].afiliado, fecha |-> table.rows[i].fecha]]
             kept == SelectSeq(pairs, LAMBDA q : ~(q.afiliado = NoKey /\ IsNullCell(q.fecha)))
             uniq == DropDuplicates(kept)
             recs == [i \in 1..Len(uniq) |->
                          [afiliado |-> IF uniq[i].afiliado = NoKey THEN "No especificado"
                                        ELSE uniq[i].afiliado,
                           fecha |-> FechaTexto(uniq[i].fecha)]]
         IN IF recs = <<>> THEN DefaultAffiliates ELSE recs
    ELSE DefaultAffiliates

\* ---- the steps of process_excel_file, which main.process_data calls
\* (main.py line 36) when gui.process_file hands it the file (gui.py line 181)
\* lines 27-34: the required columns are checked before anything else
PEF_Validate ==
    /\ pc = "pf_update_50"
    /\ IF MissingColumns(df.cols, required_columns) # <<>>
       THEN /\ error' = Wrapped(FirstMissingError(df.cols))
            /\ pc' = "pef_raised"
       ELSE /\ pc' = "pef_validated"
            /\ UNCHANGED error
    /\ UNCHANGED <<df, df_filtered, affiliates_data, result, rowWork,
                   anVars, winVars, pdVars>>

\* lines 36-40: rows with an empty required cell are dropped; {} when none is left
PEF_DropMissing ==
    /\ pc = "pef_validated"
    /\ df_filtered' = DropNa(df.rows, RequiredSet)
    /\ rowWork' = rowWork \cup {"dropna"}
    /\ IF df_filtered' = <<>>
       THEN /\ result' = [NoResult EXCEPT !.returned = TRUE]
            /\ pc' = "pef_returned"
       ELSE /\ pc' = "pef_filtered"
            /\ UNCHANGED result
    /\ UNCHANGED <<df, affiliates_data, error,
                   anVars, winVars, pdVars>>

\* lines 45-61: both timestamp columns go through the fallback chain
PEF_ToDatetime ==
    /\ pc = "pef_filtered"
    /\ df_filtered' = ToDatetimeRows(df_filtered)
    /\ attempts' = [c \in {ColLlegada, ColSalida} |-> Attempts(Column(df_filtered, c))]
    /\ rowWork' = rowWork \cup {"to_datetime"}
    /\ pc' = "pef_parsed"
    /\ UNCHANGED <<df, affiliates_data, result, error,
                   anVars, winVars, report, status_var, progress_var,
                   pf_running, pf_stack, reset_timers, clicks_left>>

\* lines 63-67: unparsed rows are dropped, then the stay is computed
PEF_Duration ==
    /\ pc = "pef_parsed"
    /\ rowWork' = rowWork \cup {"dropnat", "duration"}
    /\ LET rows == DropNaT(df_filtered)
       IN IF TzMismatch(df_filtered)
          THEN /\ error' = [kind |-> "Exception", columns |-> <<>>]
               /\ pc' = "pef_raised"
               /\ df_filtered' = rows
          ELSE /\ df_filtered' = WithEstadia(rows)
               /\ pc' = "pef_durations"
               /\ UNCHANGED error
    /\ UNCHANGED <<df, affiliates_data, result,
                   anVars, winVars, pdVars>>

\* lines 69-96: the affiliate list is taken from the raw table
PEF_Affiliates ==
    /\ pc = "pef_durations"
    /\ affiliates_data' = Affiliates(df)
    /\ pc' = "pef_affiliates"
    /\ UNCHANGED <<df, df_filtered, result, error, rowWork,
                   anVars, winVars, pdVars>>

\* lines 98-170: one entry per officer, then the operational data, then return
PEF_GroupByOfficer ==
    /\ pc = "pef_affiliates"
    /\ rowWork' = rowWork \cup {"aggregate"}
    /\ IF SortRaises(df_filtered)
       THEN /\ error' = [kind |-> "Exception", columns |-> <<>>]
            /\ pc' = "pef_raised"
            /\ UNCHANGED result
       ELSE /\ result' = [returned |-> TRUE,
                          officers |-> OfficerEntries(df_filtered),
                          has_operational_data |-> TRUE,
                          affiliates |-> affiliates_data]
            /\ pc' = "pef_returned"
            /\ UNCHANGED error
    /\ UNCHANGED <<df, df_filtered, affiliates_data,
                   anVars, winVars, pdVars>>

\* ------------------------------------------------------ main.process_data
NoReport == [message |-> "none", generate_pdf_report |-> FALSE, sections |-> 0,
             page_breaks |-> 0]

\* "not data": the dictionary returned by process_excel_file has no key at
\* all; 'operational_data' is a key like any other
IsEmptyDict(r) == r.officers = <<>> /\ ~r.has_operational_data

\* generate_pdf_report writes one section per key of data (pdf_generator.py
\* line 332), the key 'operational_data' included
Sections(r) == Len(r.officers) + (IF r.has_operational_data THEN 1 ELSE 0)

\* pdf_generator.py lines 426-428: a page break follows every section but the
\* last one
PageBreaks(r) == IF Sections(r) = 0 THEN 0 ELSE Sections(r) - 1

\* pdf_generator.py lines 411-415: generate_pdf_report paints the rows of the
\* detail table whose 'Es tiempo válido' is false
HighlightedByFlag(records) == {i \in 1..Len(records) : ~records[i].valido}

\* pdf_elements.py lines 180-184: create_detail_table paints the rows whose
\* 'Tiempo de estadía' text contains 'anomalía'
HighlightedByMarker(records) == {i \in 1..Len(records) : records[i].tiempo.anomalia}

\* gui.py, the texts of the status line, without their leading pictograms
Listo == "Listo para procesar"
Exito == "Archivo procesado con éxito"
ErrorProcesamiento == "Error durante el procesamiento"

\* gui.process_file lines 176-194, after process_callback: success and 100
\* when the callback returned, the error status and 0 when it raised
process_file_status(callback_raised) ==
    IF callback_raised THEN [status |-> ErrorProcesamiento, progress |-> 0]
    ELSE [status |-> Exito, progress |-> 100]

\* pdf_generator.py lines 343-344: the "Registros con anomalías" line of the
\* statistics table of a section
RegistrosConAnomalias(officer_data) ==
    officer_data.total_records - officer_data.valid_records

\* ---- gui.process_file and main.process_data
Procesando == "Procesando archivo..."

\* the message boxes of process_data, and its save dialog: while one is up
\* the Tk event loop runs
Boxes == {"showerror", "showwarning", "showinfo"}
DialogUp == pf_running /\ report.message \in Boxes \cup {"asksaveasfilename"}

\* the event loop runs inside the two root.update() calls of process_file
InUpdate == pf_running /\ pc \in {"pf_update_20", "pf_update_50"}

\* gui.process_file, lines 160-174, a click on the process button. The button
\* is never disabled and the handler has no re-entrancy check, so a click is
\* handled when no call is under way and also inside root.update() of a call
\* under way, which then waits until the new call has returned (the boxes and
\* the save dialog of process_data are modal: no click reaches the button
\* while one is up). The warning when no file is selected and the error box
\* when the file does not exist change nothing; otherwise a new call starts
\* on the selected file with fresh locals, the status line says the file is
\* being processed, the bar is at 20 and root.update() lets the event loop run
process_file ==
    /\ \/ ~pf_running /\ pc \in {"start", "pef_returned", "pef_raised"}
       \/ InUpdate
    /\ \E file_path \in {"", "no_existe.xlsx", "datos.xlsx"} :
          IF file_path # "datos.xlsx"
          THEN UNCHANGED <<pc, error, pefVars, pdVars>>
          ELSE /\ clicks_left > 0
               /\ clicks_left' = clicks_left - 1
               /\ pf_running' = TRUE
               /\ pf_stack' = IF pf_running THEN <<pc>> \o pf_stack ELSE pf_stack
               /\ status_var' = Procesando
               /\ progress_var' = 20
               /\ pc' = "pf_update_20"
               /\ error' = NoError
               /\ df_filtered' = <<>>
               /\ affiliates_data' = <<>>
               /\ result' = NoResult
               /\ rowWork' = {}
               /\ attempts' = NoAttempts
               /\ report' = NoReport
               /\ UNCHANGED reset_timers
    /\ UNCHANGED <<df, anVars, winVars>>

\* gui.process_file, lines 176-178: the bar goes to 50 and root.update() lets
\* the event loop run once more; process_callback is called next
process_file_progress ==
    /\ pc = "pf_update_20"
    /\ progress_var' = 50
    /\ pc' = "pf_update_50"
    /\ UNCHANGED <<df, error, pefVars, anVars, winVars, attempts, report, status_var,
                   pf_running, pf_stack, reset_timers, clicks_left>>

\* process_data(excel_file_path), main.py lines 34-58, from the point where
\* process_excel_file returned or raised: the error box when it raised, the
\* warning when data is empty, the save dialog otherwise
process_data ==
    /\ pf_running
    /\ pc \in {"pef_returned", "pef_raised"}
    /\ report = NoReport
    /\ IF pc = "pef_raised"
       THEN report' = [NoReport EXCEPT !.message = "showerror"]
       ELSE IF IsEmptyDict(result)
       THEN report' = [NoReport EXCEPT !.message = "showwarning"]
       ELSE report' = [NoReport EXCEPT !.message = "asksaveasfilename"]
    /\ UNCHANGED <<df, pc, error, pefVars, anVars, winVars, attempts, status_var,
                   progress_var, pf_running, pf_stack, reset_timers, clicks_left>>

\* what generate_pdf_report(data, output_pdf_path) does: it writes the
\* document and returns, or raises (a path that cannot be written, a value
\* reportlab rejects)
GeneratePdfOutcomes == {"returned", "raised"}

\* process_data, main.py lines 52-80, when the save dialog returns. Cancelled:
\* process_data returns and gui.process_file goes on at once to lines 184-188
\* and returns, to the event loop or into the root.update() of the call that
\* was suspended for it, whose process_callback is still to come.
\* Otherwise generate_pdf_report is called: the success box when it
\* returned, the error box of the handlers of lines 65-80 when it raised
process_data_save ==
    /\ pf_running
    /\ report.message = "asksaveasfilename"
    /\ \E output_pdf_path \in {"", "reporte.pdf"} :
          IF output_pdf_path = ""
          THEN /\ status_var' = process_file_status(FALSE).status
               /\ progress_var' = process_file_status(FALSE).progress
               /\ reset_timers' = reset_timers + 1
               /\ IF pf_stack = <<>>
                  THEN /\ pf_running' = FALSE
                       /\ report' = [NoReport EXCEPT !.message = "cancelled"]
                       /\ UNCHANGED <<pc, error, pefVars, attempts, pf_stack>>
                  ELSE /\ pc' = Head(pf_stack)
                       /\ pf_stack' = Tail(pf_stack)
                       /\ error' = NoError
                       /\ df_filtered' = <<>>
                       /\ affiliates_data' = <<>>
                       /\ result' = NoResult
                       /\ rowWork' = {}
                       /\ attempts' = NoAttempts
                       /\ report' = NoReport
                       /\ UNCHANGED pf_running
          ELSE /\ \E outcome \in GeneratePdfOutcomes :
                     IF outcome = "returned"
                     THEN report' = [message |-> "showinfo", generate_pdf_report |-> TRUE,
                                     sections |-> Sections(result),
                                     page_breaks |-> PageBreaks(result)]
                     ELSE report' = [message |-> "showerror", generate_pdf_report |-> TRUE,
                                     sections |-> 0, page_breaks |-> 0]
               /\ UNCHANGED <<pc, error, pefVars, attempts, status_var, progress_var,
                              reset_timers, pf_running, pf_stack>>
    /\ UNCHANGED <<df, anVars, winVars, clicks_left>>

\* the box of process_data is closed, process_data returns (it catches every
\* exception itself, main.py lines 65-80) and gui.process_file goes on with
\* lines 184-188: the bar at 100, the success status, and the reset timer.
\* The call returns to the event loop, or into the root.update() of the
\* call that was suspended for it
process_file_end ==
    /\ pf_running
    /\ report.message \in Boxes
    /\ status_var' = process_file_status(FALSE).status
    /\ progress_var' = process_file_status(FALSE).progress
    /\ reset_timers' = reset_timers + 1
    /\ IF pf_stack = <<>>
       THEN /\ pf_running' = FALSE
            /\ UNCHANGED <<pc, error, pefVars, attempts, report, pf_stack>>
       ELSE /\ pc' = Head(pf_stack)
            /\ pf_stack' = Tail(pf_stack)
            /\ error' = NoError
            /\ df_filtered' = <<>>
            /\ affiliates_data' = <<>>
            /\ result' = NoResult
            /\ rowWork' = {}
            /\ attempts' = NoAttempts
            /\ report' = NoReport
            /\ UNCHANGED pf_running
    /\ UNCHANGED <<df, anVars, winVars, clicks_left>>

\* gui.process_file line 188: three seconds after the end of a run its timer
\* puts the status line and the bar back. A timer fires when the event loop
\* runs: between two runs, inside root.update() and while a box or the save
\* dialog of process_data is up
process_file_reset ==
    /\ reset_timers > 0
    /\ ~pf_running \/ InUpdate \/ DialogUp
    /\ reset_timers' = reset_timers - 1
    /\ status_var' = Listo
    /\ progress_var' = 0
    /\ UNCHANGED <<df, pc, error, pefVars, anVars, winVars, attempts, report,
                   pf_running, pf_stack, clicks_left>>

\* ------------------------------------------------------------ data_loader
\* validate_required_columns: the error names every absent column
ValidateError(cols, required) ==
    [kind |-> "ValueError", columns |-> MissingColumns(cols, required)]

time_columns == <<ColLlegada, ColSalida>>

\* clean_time_data, one column: converted with errors='coerce' unless the
\* column already holds datetimes
CleanColumn(cells) ==
    IF IsDatetimeDtype(cells) THEN [i \in 1..Len(cells) |-> Instant(cells[i].t, FALSE)]
    ELSE [i \in 1..Len(cells) |-> Coerce(cells[i])]

\* ---- frames as objects. During a call the frames in existence are a
\* sequence of tables, a name is bound to a position in it, and the frame
\* the caller passed is the first
Caller == 1

\* mutant: no copy is made, the new name is bound to the same frame
DataFrameAlias(frames, obj) == [frames |-> frames, obj |-> obj]
\* df.copy(): a new frame with the columns and rows of the one copied
DataFrameCopy(frames, obj) ==
    [frames |-> Append(frames, frames[obj]), obj |-> Len(frames) + 1]

\* frame[col] = values, frame.loc[mask, col] = value, frame.columns = names:
\* the frame the name is bound to is changed in place
SetItem(frames, obj, table) == [frames EXCEPT ![obj] = table]

\* an expression that builds its result (groupby/agg/reset_index,
\* sort_values, df[mask]): a new frame
NewFrame(frames, table) ==
    [frames |-> Append(frames, table), obj |-> Len(frames) + 1]

\* lines 31-35: both time columns of a frame converted
WithCleanColumns(table) ==
    LET a == CleanColumn(Column(table.rows, ColLlegada))
        d == CleanColumn(Column(table.rows, ColSalida))
    IN [cols |-> table.cols,
        rows |-> [i \in 1..Len(table.rows) |->
                    [table.rows[i] EXCEPT !.llegada = a[i], !.salida = d[i]]]]

\* a call clean_time_data(df): df_clean = df.copy() (line 27), the converted
\* columns are assigned to df_clean when both columns are there (lines
\* 30-35), and df_clean is returned
clean_time_data_call(table) ==
    LET df_clean_ == DataFrameCopy(<<table>>, Caller)
    IN [frames |-> IF MissingColumns(table.cols, time_columns) = <<>>
                   THEN SetItem(df_clean_.frames, df_clean_.obj,
                                WithCleanColumns(df_clean_.frames[df_clean_.obj]))
                   ELSE df_clean_.frames,
        ret |-> df_clean_.obj]

\* the frame clean_time_data returns
clean_time_data(table) ==
    LET r == clean_time_data_call(table) IN r.frames[r.ret]

\* the frame the caller passed, after the call
df_after_clean_time_data(table) == clean_time_data_call(table).frames[Caller]

\* ---------------------------------------------------------- time_analyzer
\* lines 20-25: minutes between the two instants, NaN when an instant is NaT,
\* and NaN again when the difference is negative
DuracionMinutos(row) ==
    IF row.llegada.nat \/ row.salida.nat THEN NaN
    ELSE LET d == row.salida.t - row.llegada.t
         IN IF d < 0 THEN NaN ELSE Num(d)

\* lines 21-25: a frame with the duration column assigned
WithDuracion(table) ==
    [cols |-> table.cols \cup {ColDuracion},
     rows |-> [i \in 1..Len(table.rows) |->
                 [tech |-> table.rows[i].tech, modelo |-> table.rows[i].modelo,
                  afiliado |-> table.rows[i].afiliado, fecha |-> table.rows[i].fecha,
                  llegada |-> table.rows[i].llegada, salida |-> table.rows[i].salida,
                  duracion |-> DuracionMinutos(table.rows[i])]]]

\* a call calculate_service_duration(df): ValueError before anything else
\* when a time column is absent (lines 13-15); df_result = df.copy() (line
\* 18); the subtraction of line 21 raises TypeError before the assignment
\* when the instants cannot be subtracted; a subtraction made row by row
\* gives a column of objects, on which .dt raises AttributeError; else the
\* duration column is assigned to df_result (lines 21-25), which is returned
calculate_service_duration_call(table) ==
    IF MissingColumns(table.cols, time_columns) # <<>>
    THEN [frames |-> <<table>>, raised |-> "ValueError", ret |-> 0]
    ELSE LET df_result_ == DataFrameCopy(<<table>>, Caller)
             rows == df_result_.frames[df_result_.obj].rows
         IN IF TzMismatch(rows)
            THEN [frames |-> df_result_.frames, raised |-> "TypeError", ret |-> 0]
            ELSE IF \E c \in {ColLlegada, ColSalida} : IsObjectColumn(Column(rows, c))
            THEN [frames |-> df_result_.frames, raised |-> "AttributeError", ret |-> 0]
            ELSE [frames |-> SetItem(df_result_.frames, df_result_.obj,
                                     WithDuracion(df_result_.frames[df_result_.obj])),
                  raised |-> "none",
                  ret |-> df_result_.obj]

\* the frame calculate_service_duration returns when it does not raise
calculate_service_duration(table) ==
    LET r == calculate_service_duration_call(table) IN r.frames[r.ret]

\* the frame the caller passed, after the call has returned or raised
df_after_calculate_service_duration(table) ==
    calculate_service_duration_call(table).frames[Caller]

\* mutant: a missing duration is read as 0
DurationsMissingAsZero(rows) ==
    [i \in 1..Len(rows) |-> IF rows[i].duracion.nan THEN 0 ELSE rows[i].duracion.v]
\* the non-NaN values of the duration column of a sequence of rows
Durations(rows) ==
    LET v == SelectSeq(rows, LAMBDA r : ~r.duracion.nan)
    IN [i \in 1..Len(v) |-> v[i].duracion.v]

\* groupby(key)['Duración (minutos)'].agg(['mean', 'count', 'min', 'max']) for
\* one group: NaN durations are skipped; mean is kept as the fraction sum/count
AggRow(k, group) ==
    LET ds == Durations(group)
    IN [key |-> k,
        count |-> Len(ds),
        mean |-> IF ds = <<>> THEN [nan |-> TRUE, num |-> 0, den |-> 1]
                 ELSE [nan |-> FALSE, num |-> SumSeq(ds), den |-> Len(ds)],
        min |-> IF ds = <<>> THEN NaN ELSE Num(MinSeq(ds)),
        max |-> IF ds = <<>> THEN NaN ELSE Num(MaxSeq(ds))]

\* groupby(col)[...].agg([...]).reset_index(): one row per distinct
\* non-empty key, in key order
AggRows(rows, col) ==
    LET ks == GroupKeys(rows, col)
    IN [i \in 1..Len(ks) |->
           AggRow(ks[i], SelectSeq(rows, LAMBDA r : KeyOf(r, col) = ks[i]))]

\* sort_values('Promedio (min)')
SortByMean(agg) ==
    Vals(SortPairs([i \in 1..Len(agg) |-> [key |-> agg[i].mean, val |-> agg[i]]]))

\* the column names lines 43 and 70 give the aggregated frame
TecnicoColumns ==
    {"Técnico", "Promedio (min)", "Cantidad", "Mínimo (min)", "Máximo (min)"}
ModeloColumns ==
    {"Modelo de Terminal", "Promedio (min)", "Cantidad", "Mínimo (min)", "Máximo (min)"}

\* lines 41-45 and 68-72: the aggregation is a new frame, its columns are
\* renamed in place, and sort_values gives another new frame, the one
\* returned
get_average_duration_call(table, col, names) ==
    LET grouped == NewFrame(<<table>>,
                            [cols |-> {col, "mean", "count", "min", "max"},
                             rows |-> AggRows(table.rows, col)])
        renamed == SetItem(grouped.frames, grouped.obj,
                           [grouped.frames[grouped.obj] EXCEPT !.cols = names])
        sorted == NewFrame(renamed,
                           [cols |-> names, rows |-> SortByMean(renamed[grouped.obj].rows)])
    IN [frames |-> sorted.frames, ret |-> sorted.obj]

Raised(kind) == [error |-> kind, rows |-> <<>>]
Returned(rows) == [error |-> "none", rows |-> rows]
NotCalled == [error |-> "not called", rows |-> <<>>]

\* a call get_average_duration_by_technician(df), lines 34-45
get_average_duration_by_technician_call(table) ==
    IF ColDuracion \notin table.cols \/ ColTech \notin table.cols
    THEN [frames |-> <<table>>, result |-> Raised("ValueError")]
    ELSE LET r == get_average_duration_call(table, ColTech, TecnicoColumns)
         IN [frames |-> r.frames, result |-> Returned(r.frames[r.ret].rows)]

get_average_duration_by_technician(table) ==
    get_average_duration_by_technician_call(table).result

\* a call get_average_duration_by_terminal_model(df), lines 52-72
get_average_duration_by_terminal_model_call(table) ==
    IF ColDuracion \notin table.cols \/ terminal_columns(table.cols) = {}
    THEN [frames |-> <<table>>, result |-> Raised("ValueError")]
    ELSE LET r == get_average_duration_call(table, ColModelo, ModeloColumns)
         IN [frames |-> r.frames, result |-> Returned(r.frames[r.ret].rows)]

get_average_duration_by_terminal_model(table) ==
    get_average_duration_by_terminal_model_call(table).result

\* sort_values('Promedio (min)') is called with the default kind='quicksort',
\* which does not promise to keep the order of rows with equal means: every
\* order of the rows in which the means are the ones of the sorted column is
\* a possible result; the rows without a mean stay last, in their order
SameKey(a, b) == ~KeyLess(a, b) /\ ~KeyLess(b, a)
TieOrders(rows) ==
    LET n == Len(rows)
        perms == {q \in [1..n -> 1..n] :
                     /\ \A i, j \in 1..n : q[i] = q[j] => i = j
                     /\ \A i \in 1..n : /\ SameKey(rows[q[i]].mean, rows[i].mean)
                                        /\ rows[i].mean.nan => q[i] = i}
    IN {[i \in 1..n |-> rows[q[i]]] : q \in perms}

\* the values a call of one of the two aggregations can return
SortOutcomes(r) ==
    IF r.error # "none" THEN {r} ELSE {Returned(o) : o \in TieOrders(r.rows)}

\* the frame the caller passed, after a call of an aggregation has returned
\* or raised
df_after_get_average_duration_by_technician(table) ==
    get_average_duration_by_technician_call(table).frames[Caller]
df_after_get_average_duration_by_terminal_model(table) ==
    get_average_duration_by_terminal_model_call(table).frames[Caller]

\* Series.quantile(q) with q = qn/4, times 4: linear interpolation between the
\* two order statistics around position (n - 1) * q of the sorted non-NaN values
Sorted(ds) == Vals(SortPairs([i \in 1..Len(ds) |-> [key |-> IntKey(ds[i]), val |-> ds[i]]]))

Quantile4(ds, qn) ==
    LET s == Sorted(ds)
        pos == (Len(s) - 1) * qn
        i == pos \div 4
        r == pos % 4
    IN IF r = 0 THEN 4 * s[i + 1]
       ELSE 4 * s[i + 1] + r * (s[i + 2] - s[i + 1])

\* mutant: threshold_factor ignored, the bounds are Q1 - IQR and Q3 + IQR
BoundsWithoutFactor(rows, k) ==
    LET ds == Durations(rows)
    IN IF ds = <<>> THEN [nan |-> TRUE, lower |-> 0, upper |-> 0, scale |-> 1]
       ELSE LET Q1 == Quantile4(ds, 1)
                Q3 == Quantile4(ds, 3)
                IQR == Q3 - Q1
            IN [nan |-> FALSE,
                lower |-> k[2] * Q1 - k[2] * IQR,
                upper |-> k[2] * Q3 + k[2] * IQR,
                scale |-> 4 * k[2]]
\* lines 82-89 for k = kn/kd, every quantity times 4 * kd; nan when the
\* column has no value at all
Bounds(rows, k) ==
    LET ds == Durations(rows)
    IN IF ds = <<>> THEN [nan |-> TRUE, lower |-> 0, upper |-> 0, scale |-> 1]
       ELSE LET Q1 == Quantile4(ds, 1)
                Q3 == Quantile4(ds, 3)
                IQR == Q3 - Q1
            IN [nan |-> FALSE,
                lower |-> k[2] * Q1 - k[1] * IQR,
                upper |-> k[2] * Q3 + k[1] * IQR,
                scale |-> 4 * k[2]]

BelowLower(row, b) == ~row.duracion.nan /\ ~b.nan /\ row.duracion.v * b.scale < b.lower
\* mutant: a duration equal to the upper bound counts as above it
AboveUpperInclusive(row, b) ==
    ~row.duracion.nan /\ ~b.nan /\ row.duracion.v * b.scale >= b.upper
AboveUpper(row, b) == ~row.duracion.nan /\ ~b.nan /\ row.duracion.v * b.scale > b.upper

\* mutant: line 98 left out, a row above the upper bound keeps 'Normal'
TipoDeAnomaliaSinLarga(row, b) ==
    IF BelowLower(row, b) THEN "Corta" ELSE "Normal"
\* lines 96-98: 'Normal', then 'Corta' where below, then 'Larga' where above
\* (the last assignment wins)
TipoDeAnomalia(row, b) ==
    IF AboveUpper(row, b) THEN "Larga"
    ELSE IF BelowLower(row, b) THEN "Corta"
    ELSE "Normal"

\* lines 82-98: the rows outside the bounds, each with its tag
AnomalyRows(rows, k) ==
    LET b == Bounds(rows, k)
        sel == SelectSeq(rows, LAMBDA r : BelowLower(r, b) \/ AboveUpper(r, b))
    IN [i \in 1..Len(sel) |-> [row |-> sel[i], tipo |-> TipoDeAnomalia(sel[i], b)]]

\* a call identify_anomalies(df, k), lines 79-100: ValueError without the
\* duration column; df[mask] is a new frame with the selected rows,
\* anomalies is its copy (lines 92-93), the tag column is assigned to
\* anomalies (lines 96-98), which is returned
identify_anomalies_call(table, k) ==
    IF ColDuracion \notin table.cols
    THEN [frames |-> <<table>>, raised |-> TRUE, ret |-> 0]
    ELSE LET b == Bounds(table.rows, k)
             selected == NewFrame(<<table>>,
                            [cols |-> table.cols,
                             rows |-> SelectSeq(table.rows,
                                         LAMBDA r : BelowLower(r, b) \/ AboveUpper(r, b))])
             anomalies_ == DataFrameCopy(selected.frames, selected.obj)
         IN [frames |-> SetItem(anomalies_.frames, anomalies_.obj,
                                [cols |-> table.cols \cup {"Tipo de Anomalía"},
                                 rows |-> AnomalyRows(table.rows, k)]),
             raised |-> FALSE,
             ret |-> anomalies_.obj]

\* mutant: nothing is reported for a column of fewer than 30 values
identify_anomalies_min_sample(table, k) ==
    IF ColDuracion \notin table.cols THEN Raised("ValueError")
    ELSE IF Len(Durations(table.rows)) < 30 THEN Returned(<<>>)
    ELSE Returned(AnomalyRows(table.rows, k))
\* the value identify_anomalies returns or the error it raises
identify_anomalies(table, k) ==
    LET r == identify_anomalies_call(table, k)
    IN IF r.raised THEN Raised("ValueError") ELSE Returned(r.frames[r.ret].rows)

\* the frame the caller passed, after the call has returned or raised
df_after_identify_anomalies(table, k) == identify_anomalies_call(table, k).frames[Caller]

\* threshold_factor: the default 1.5, and 0, 1/2 and -2
DefaultThreshold == <<3, 2>>
ThresholdFactors == {DefaultThreshold, <<0, 1>>, <<1, 2>>, <<-2, 1>>}

\* ---- the Qt pipeline, function by function
\* validate_required_columns(df, ['Hora de llegada', 'Hora de salida'])
QT_Validate ==
    /\ pc = "start"
    /\ IF MissingColumns(df.cols, time_columns) # <<>>
       THEN /\ error' = ValidateError(df.cols, time_columns)
            /\ pc' = "qt_raised"
       ELSE /\ pc' = "qt_validated"
            /\ UNCHANGED error
    /\ UNCHANGED <<df, pefVars, anVars, winVars, pdVars>>

\* clean_time_data(df), after validation or (gui_time_analysis.py) without it
QT_Clean ==
    /\ pc \in {"start", "qt_validated"}
    /\ df_clean' = clean_time_data(df)
    /\ df' = df_after_clean_time_data(df)
    /\ pc' = "qt_cleaned"
    /\ UNCHANGED <<error, pefVars, df_result, avg_by_tech, avg_by_model, anomalies,
                   threshold_factor, winVars, pdVars>>

\* calculate_service_duration(df_clean): lines 11-15 raise before any
\* duration is computed, naming every absent column
QT_Calculate ==
    /\ pc = "qt_cleaned"
    /\ LET r == calculate_service_duration_call(df_clean)
       IN IF r.raised = "ValueError"
          THEN /\ error' = ValidateError(df_clean.cols, time_columns)
               /\ pc' = "qt_raised"
               /\ UNCHANGED df_result
          ELSE IF r.raised \in {"TypeError", "AttributeError"}
          THEN /\ error' = [kind |-> r.raised, columns |-> <<>>]
               /\ pc' = "qt_raised"
               /\ UNCHANGED df_result
          ELSE /\ df_result' = calculate_service_duration(df_clean)
               /\ pc' = "qt_calculated"
               /\ UNCHANGED error
    /\ df_clean' = df_after_calculate_service_duration(df_clean)
    /\ UNCHANGED <<df, pefVars, avg_by_tech, avg_by_model, anomalies,
                   threshold_factor, winVars, pdVars>>

\* the two aggregations of df_result, as the technician tab and the
\* terminal-model tab make them (tab_widgets.py): the technician tab calls
\* get_average_duration_by_technician only when both of its columns are
\* there (lines 131-133), the terminal-model tab calls
\* get_average_duration_by_terminal_model whenever the duration column is
\* there (lines 186-188) and shows the exception it raises
QT_Aggregate ==
    /\ pc = "qt_calculated"
    /\ IF ColDuracion \notin df_result.cols \/ ColTech \notin df_result.cols
       THEN avg_by_tech' = NotCalled
       ELSE avg_by_tech' \in SortOutcomes(get_average_duration_by_technician(df_result))
    /\ IF ColDuracion \notin df_result.cols
       THEN avg_by_model' = NotCalled
       ELSE avg_by_model' \in SortOutcomes(get_average_duration_by_terminal_model(df_result))
    /\ df_result' =
          LET t == IF ColDuracion \notin df_result.cols \/ ColTech \notin df_result.cols
                   THEN df_result
                   ELSE df_after_get_average_duration_by_technician(df_result)
          IN IF ColDuracion \notin t.cols THEN t
             ELSE df_after_get_average_duration_by_terminal_model(t)
    /\ pc' = "qt_aggregated"
    /\ UNCHANGED <<df, error, pefVars, df_clean, anomalies,
                   threshold_factor, winVars, pdVars>>

\* a call identify_anomalies(df_result, threshold_factor): the anomalies tab
\* makes it with the default factor, other callers pass their own
QT_Anomalies ==
    /\ pc = "qt_aggregated"
    /\ \E k \in ThresholdFactors :
          /\ threshold_factor' = k
          /\ anomalies' = identify_anomalies(df_result, k)
          /\ df_result' = df_after_identify_anomalies(df_result, k)
    /\ pc' = "qt_done"
    /\ UNCHANGED <<df, error, pefVars, df_clean, avg_by_tech, avg_by_model,
                   winVars, pdVars>>

\* ------------------------------------------------------------ input tables
RawRow(tech, llegada, salida, modelo) ==
    [tech |-> tech, llegada |-> llegada, salida |-> salida, modelo |-> modelo,
     afiliado |-> NoKey, fecha |-> NullCell]

\* the cells of an absent column are empty
Project(row, cols) ==
    [tech |-> IF ColTech \in cols THEN row.tech ELSE NoKey,
     llegada |-> IF ColLlegada \in cols THEN row.llegada ELSE NullCell,
     salida |-> IF ColSalida \in cols THEN row.salida ELSE NullCell,
     modelo |-> IF terminal_columns(cols) # {} THEN row.modelo ELSE NoKey,
     afiliado |-> IF ColAfiliado \in cols THEN row.afiliado ELSE NoKey,
     fecha |-> IF ColFecha \in cols THEN row.fecha ELSE NullCell]

\* (arrival, departure) pairs: every pair of times, and the pairs with an
\* empty or unreadable cell
TimePairs(maxT) ==
    {<<TimeCell("24", a), TimeCell("24", d)>> : a \in 0..1, d \in 0..maxT}

BrokenPairs ==
    {<<NullCell, TimeCell("24", 0)>>, <<TimeCell("24", 0), NullCell>>,
     <<BadCell, TimeCell("24", 0)>>, <<TimeCell("24", 0), BadCell>>,
     <<BadCell, BadCell>>}

RowsOver(techs, pairs, modelos) ==
    {RawRow(k, p[1], p[2], m) : k \in techs, p \in pairs, m \in modelos}

SeqsUpTo(S, n) == UNION {[1..m -> S] : m \in 0..n}

TablesOver(cols, rowSet, n) ==
    {[cols |-> cols, rows |-> rs] : rs \in SeqsUpTo({Project(r, cols) : r \in rowSet}, n)}

\* tables with any subset of the required columns, no terminal-model column:
\* up to MaxRows rows, any technician or none, any pair of cells
RequiredRows == RowsOver(KeySet \cup {NoKey}, TimePairs(MaxT) \cup BrokenPairs, {NoKey})
IsTableRequired(t) ==
    \E cols \in SUBSET RequiredSet : \E n \in 0..MaxRows :
        \E rs \in [1..n -> {Project(r, cols) : r \in RequiredRows}] :
            t = [cols |-> cols, rows |-> rs]

\* tables with a terminal-model column, one technician
TablesModel ==
    TablesOver(RequiredSet \cup {ColModelo},
               RowsOver({"A"}, TimePairs(MaxT) \cup {<<BadCell, TimeCell("24", 0)>>},
                        KeySet \cup {NoKey}), MaxRows)

\* the names a terminal-model column can have
ModelColumnNames == {ColModelo, ColModeloDeTerminal, ColModeloInfix}

\* short tables with the two time columns, with or without the technician
\* column, and one or two terminal-model columns under any of their names
TablesModelNames ==
    UNION {TablesOver({ColLlegada, ColSalida} \cup tech \cup names,
                      RowsOver({"A"}, {<<TimeCell("24", 0), TimeCell("24", 1)>>},
                               KeySet \cup {NoKey}), MaxRowsW)
           : tech \in {{}, {ColTech}},
             names \in {n \in SUBSET ModelColumnNames : n # {} /\ Cardinality(n) <= 2}}

\* longer tables of one technician, for the quartiles
TablesQuartile ==
    {t \in TablesOver(RequiredSet,
                      RowsOver({"A"}, {<<TimeCell("24", 1), TimeCell("24", d)>> : d \in 0..MaxTA},
                               {NoKey}), MaxRowsA) : Len(t.rows) > MaxRows}

\* the tables a user loads in the window: short tables with any subset of
\* the required columns
WindowTables ==
    UNION {TablesOver(cols, RowsOver({"A"},
                                     {<<TimeCell("24", 0), TimeCell("24", 1)>>,
                                      <<TimeCell("24", 1), TimeCell("24", 0)>>,
                                      <<BadCell, TimeCell("24", 0)>>,
                                      <<TimeCell("12z", 0), TimeCell("24", 1)>>},
                                     {NoKey}), MaxRowsW)
           : cols \in SUBSET RequiredSet}

\* one timestamp column: texts without an offset in any mix, texts with one
\* and the same offset, or native datetimes throughout; an unreadable text
\* can sit in any column of texts
ColumnsOfCells(n, t) ==
    [1..n -> {TimeCell("12", t), TimeCell("24", t), TimeCell("gen", t), BadCell}]
        \cup [1..n -> {TimeCell("12z", t), BadCell}]
        \cup {[i \in 1..n |-> TimeCell("dt", t)]}

\* tables of one technician whose two timestamp columns use any of the
\* encodings, arrivals at minute 0 and departures at minute 1
TablesFormats ==
    UNION {{[cols |-> RequiredSet,
             rows |-> [i \in 1..n |-> RawRow("A", a[i], d[i], NoKey)]]
            : a \in ColumnsOfCells(n, 0), d \in ColumnsOfCells(n, 1)}
           : n \in 1..MaxRowsF}

\* a column of texts in any mix of the encodings, with and without an offset
ColumnsOfTexts(n, t) ==
    [1..n -> {TimeCell("12z", t), TimeCell("12", t), TimeCell("24", t),
              TimeCell("gen", t), BadCell}]

\* tables of n rows of one technician with two columns of texts, arrivals at
\* minute 0 and departures at minute 1
TablesTexts(n) ==
    {[cols |-> RequiredSet,
      rows |-> [i \in 1..n |-> RawRow("A", a[i], d[i], NoKey)]]
     : a \in ColumnsOfTexts(n, 0), d \in ColumnsOfTexts(n, 1)}

\* a table with the required columns from (technician, arrival, departure)
\* triples, the times written as 24-hour texts in minutes after midnight
TableOfVisits(visits) ==
    [cols |-> RequiredSet,
     rows |-> [i \in 1..Len(visits) |->
                  RawRow(visits[i][1], TimeCell("24", visits[i][2]),
                         TimeCell("24", visits[i][3]), NoKey)]]

\* durations 10 10 10 15 15 15 20 30 40: Q1 = 10 and Q3 = 20
QuartileExample ==
    TableOfVisits(<<<<"A", 0, 10>>, <<"A", 0, 10>>, <<"A", 0, 10>>, <<"A", 0, 15>>,
                    <<"A", 0, 15>>, <<"A", 0, 15>>, <<"A", 0, 20>>, <<"A", 0, 30>>,
                    <<"A", 0, 40>>>>)

\* durations 1 1 0 1 1 2 1: Q1 = Q3 = 1
DegenerateExample ==
    TableOfVisits(<<<<"A", 0, 1>>, <<"A", 0, 1>>, <<"A", 0, 0>>, <<"A", 0, 1>>,
                    <<"B", 0, 1>>, <<"B", 0, 2>>, <<"B", 0, 1>>>>)

\* (A, 09:00 -> 09:30), (A, 10:00 -> 09:45), (B, 08:00 -> 08:20)
ThreeRowExample ==
    TableOfVisits(<<<<"A", 540, 570>>, <<"A", 600, 585>>, <<"B", 480, 500>>>>)

ExampleTables == {QuartileExample, DegenerateExample, ThreeRowExample}

\* a row that also carries the affiliate name and the report date
AffiliateRow(tech, llegada, salida, afiliado, fecha) ==
    [tech |-> tech, llegada |-> llegada, salida |-> salida, modelo |-> NoKey,
     afiliado |-> afiliado, fecha |-> fecha]

\* tables with the required columns and any of the two affiliate columns: the
\* stay of a row is positive, negative or not computable, the affiliate name
\* and the report date are present or empty
TablesAffiliates ==
    UNION {TablesOver(RequiredSet \cup opt,
                      {AffiliateRow("A", p[1], p[2], a, f) :
                          p \in {<<TimeCell("24", 0), TimeCell("24", 1)>>,
                                 <<TimeCell("24", 1), TimeCell("24", 0)>>,
                                 <<NullCell, TimeCell("24", 0)>>},
                          a \in {"A", NoKey},
                          f \in {TimeCell("dt", 0), NullCell}}, MaxRowsAf)
           : opt \in SUBSET {ColAfiliado, ColFecha}}

\* the tables a run starts from
IsInputTable(t) ==
    \/ IsTableRequired(t)
    \/ t \in TablesModel
    \/ t \in TablesModelNames
    \/ t \in TablesQuartile
    \/ t \in TablesFormats
    \/ t \in ExampleTables
    \/ t \in TablesAffiliates

WinInit ==
    /\ self_df = NoTable
    /\ load_button = TRUE
    /\ export_pdf_button = FALSE
    /\ tabs = NoTable
    /\ last_load = [outcome |-> "none", cols |-> {}, steps |-> {}]
    /\ pdf_threads = <<>>
    /\ exports = [started |-> 0, finished |-> 0, failed |-> 0]

EngineInit ==
    /\ pc = "start"
    /\ error = NoError
    /\ df_filtered = <<>>
    /\ affiliates_data = <<>>
    /\ result = NoResult
    /\ rowWork = {}
    /\ df_clean = NoTable
    /\ df_result = NoTable
    /\ avg_by_tech = NotCalled
    /\ avg_by_model = NotCalled
    /\ anomalies = NotCalled
    /\ threshold_factor = DefaultThreshold
    /\ attempts = NoAttempts
    /\ report = NoReport
    /\ status_var = Listo
    /\ progress_var = 0
    /\ pf_running = FALSE
    /\ pf_stack = <<>>
    /\ reset_timers = 0

\* one run of process_file, or one run of the Qt pipeline, on any input table
Init ==
    /\ IsInputTable(df)
    /\ EngineInit
    /\ WinInit
    /\ clicks_left = 1

Next ==
    \/ process_file
    \/ process_file_progress
    \/ PEF_Validate
    \/ PEF_DropMissing
    \/ PEF_ToDatetime
    \/ PEF_Duration
    \/ PEF_Affiliates
    \/ PEF_GroupByOfficer
    \/ process_data
    \/ process_data_save
    \/ process_file_end
    \/ process_file_reset
    \/ QT_Validate
    \/ QT_Clean
    \/ QT_Calculate
    \/ QT_Aggregate
    \/ QT_Anomalies

Spec == Init /\ [][Next]_vars

\* ---- the main window alone: up to MaxClicks runs of process_file on the
\* selected file, a short table
GuiTables == WindowTables \cup {ThreeRowExample}

GuiInit ==
    /\ df \in GuiTables
    /\ EngineInit
    /\ WinInit
    /\ clicks_left = MaxClicks

GuiNext ==
    \/ process_file
    \/ process_file_progress
    \/ PEF_Validate
    \/ PEF_DropMissing
    \/ PEF_ToDatetime
    \/ PEF_Duration
    \/ PEF_Affiliates
    \/ PEF_GroupByOfficer
    \/ process_data
    \/ process_data_save
    \/ process_file_end
    \/ process_file_reset

SpecGui == GuiInit /\ [][GuiNext]_vars

\* ---- one run of process_file on a table whose timestamp columns are texts
\* in any mix of the encodings
FormatsInit ==
    /\ \E n \in 1..MaxRowsF : df \in TablesTexts(n)
    /\ EngineInit
    /\ WinInit
    /\ clicks_left = 1

SpecFormats == FormatsInit /\ [][GuiNext]_vars

\* ------------------------------------------------- TimeAnalysisWindow
\* analyze_time_data, called from load_excel_file with self.df = table:
\* the new self.df, whether the tabs were updated with it, and the steps
\* executed; when calculate_service_duration raises, self.df stays the table
\* passed and the tabs keep what they showed
AnalyzeTimeData(table) ==
    LET r == calculate_service_duration_call(table)
    IN IF r.raised # "none"
       THEN [self_df |-> r.frames[Caller], tabs_updated |-> FALSE, steps |-> {}]
       ELSE [self_df |-> r.frames[r.ret], tabs_updated |-> TRUE,
             steps |-> {"duration", "tabs"}]

\* lines 130 and 139 of load_excel_file on each table that has both time
\* columns: clean_time_data, then analyze_time_data; worked out once a table
CleanedAndAnalyzed ==
    [t \in {w \in WindowTables : MissingColumns(w.cols, time_columns) = <<>>} |->
        AnalyzeTimeData(clean_time_data(t))]

\* load_excel_file on a file that cannot be read: data_loader.load_excel_file
\* raises before self.df is assigned and the outer handler shows the error
LoadUnreadable ==
    /\ load_button
    /\ last_load' = [outcome |-> "error", cols |-> {}, steps |-> {}]
    /\ UNCHANGED <<self_df, load_button, export_pdf_button, tabs, pdf_threads, exports>>
    /\ UNCHANGED <<df, pc, error, pefVars, anVars, pdVars>>

\* load_excel_file on a readable file holding table t (lines 113-144)
LoadExcelFile ==
    /\ load_button
    /\ \E t \in WindowTables :
          IF MissingColumns(t.cols, time_columns) # <<>>
          THEN /\ self_df' = t
               /\ last_load' = [outcome |-> "warning", cols |-> t.cols, steps |-> {}]
               /\ UNCHANGED <<export_pdf_button, tabs>>
          ELSE LET a == CleanedAndAnalyzed[t]
               IN /\ self_df' = a.self_df
                  /\ tabs' = IF a.tabs_updated THEN a.self_df ELSE tabs
                  /\ export_pdf_button' = TRUE
                  /\ last_load' = [outcome |-> "loaded", cols |-> t.cols,
                                    steps |-> {"clean"} \cup a.steps]
    /\ UNCHANGED <<load_button, pdf_threads, exports>>
    /\ UNCHANGED <<df, pc, error, pefVars, anVars, pdVars>>

\* lines 189-191: export_to_pdf disables both buttons before it starts the worker
\* mutant: only the export button is disabled
ButtonsWhileExportingLoadEnabled == [load_button |-> TRUE, export_pdf_button |-> FALSE]
ButtonsWhileExporting == [load_button |-> FALSE, export_pdf_button |-> FALSE]

\* PDFExportThread.__init__: the worker keeps the table it was handed
NewThread(table) == [df |-> table, ran |-> FALSE, queue |-> <<>>]

\* export_to_pdf (lines 170-197): the warning when there is nothing to export,
\* nothing when the save dialog is cancelled, otherwise both buttons are
\* disabled and a PDFExportThread is started on self.df
export_to_pdf ==
    /\ export_pdf_button
    /\ IF self_df = NoTable \/ ColDuracion \notin self_df.cols
       THEN UNCHANGED <<load_button, export_pdf_button, pdf_threads, exports>>
       ELSE \E output_path \in {"", "reporte.pdf"} :
               IF output_path = ""
               THEN UNCHANGED <<load_button, export_pdf_button, pdf_threads, exports>>
               ELSE /\ exports.started < MaxExports
                    /\ load_button' = ButtonsWhileExporting.load_button
                    /\ export_pdf_button' = ButtonsWhileExporting.export_pdf_button
                    /\ pdf_threads' = Append(pdf_threads, NewThread(self_df))
                    /\ exports' = [exports EXCEPT !.started = @ + 1]
    /\ UNCHANGED <<self_df, tabs, last_load>>
    /\ UNCHANGED <<df, pc, error, pefVars, anVars, pdVars>>

\* the body of the try block of PDFExportThread.run (lines 28-31) returns a
\* path or raises; with the pdf_generator module of this source tree, which
\* defines no PDFGenerator, the import raises
CreatePdfReportOutcomes == {"returned", "raised"}

\* mutant: an exception of the worker is swallowed without a signal
SignalsOfRunSwallowed(outcome) == IF outcome = "returned" THEN <<"finished">> ELSE <<>>
\* PDFExportThread.run (lines 27-34): finished is emitted when the body
\* returned, error when it raised; the signals are queued for the GUI thread,
\* where the slots connected at lines 195-196 run
SignalsOfRun(outcome) == IF outcome = "returned" THEN <<"finished">> ELSE <<"error">>

PDFExportThread_run ==
    /\ \E i \in 1..Len(pdf_threads) : \E outcome \in CreatePdfReportOutcomes :
          /\ ~pdf_threads[i].ran
          /\ pdf_threads' = [pdf_threads EXCEPT ![i] =
                                [@ EXCEPT !.ran = TRUE, !.queue = SignalsOfRun(outcome)]]
    /\ UNCHANGED <<self_df, load_button, export_pdf_button, tabs, last_load, exports>>
    /\ UNCHANGED <<df, pc, error, pefVars, anVars, pdVars>>

\* the workers left once the first queued signal of worker i is delivered: a
\* worker with no further signal is done
AfterDelivery(threads, i) ==
    IF Len(threads[i].queue) > 1
    THEN [threads EXCEPT ![i] = [@ EXCEPT !.queue = Tail(@)]]
    ELSE SubSeq(threads, 1, i - 1) \o SubSeq(threads, i + 1, Len(threads))

\* pdf_export_finished (lines 199-210): both buttons are enabled again
pdf_export_finished ==
    /\ \E i \in 1..Len(pdf_threads) :
          /\ pdf_threads[i].queue # <<>>
          /\ Head(pdf_threads[i].queue) = "finished"
          /\ pdf_threads' = AfterDelivery(pdf_threads, i)
    /\ export_pdf_button' = TRUE
    /\ load_button' = TRUE
    /\ exports' = [exports EXCEPT !.finished = @ + 1]
    /\ UNCHANGED <<self_df, tabs, last_load>>
    /\ UNCHANGED <<df, pc, error, pefVars, anVars, pdVars>>

\* pdf_export_error (lines 212-223): both buttons are enabled again
pdf_export_error ==
    /\ \E i \in 1..Len(pdf_threads) :
          /\ pdf_threads[i].queue # <<>>
          /\ Head(pdf_threads[i].queue) = "error"
          /\ pdf_threads' = AfterDelivery(pdf_threads, i)
    /\ export_pdf_button' = TRUE
    /\ load_button' = TRUE
    /\ exports' = [exports EXCEPT !.failed = @ + 1]
    /\ UNCHANGED <<self_df, tabs, last_load>>
    /\ UNCHANGED <<df, pc, error, pefVars, anVars, pdVars>>

WindowInit ==
    /\ df = NoTable
    /\ EngineInit
    /\ WinInit
    /\ clicks_left = 0

WindowNext ==
    \/ LoadUnreadable
    \/ LoadExcelFile
    \/ export_to_pdf
    \/ PDFExportThread_run
    \/ pdf_export_finished
    \/ pdf_export_error

SpecWindow == WindowInit /\ [][WindowNext]_vars

\* a started QThread does run, and the event loop of the GUI thread does
\* deliver a queued signal to its slot
SpecWindowFair ==
    /\ SpecWindow
    /\ WF_vars(PDFExportThread_run)
    /\ WF_vars(pdf_export_finished)
    /\ WF_vars(pdf_export_error)

\* ================================================================ claims
\* the records of an officer entry whose stay is not negative, in seconds
NonNegativeSeconds(e) ==
    LET v == SelectSeq(e.records, LAMBDA r : r.segundos >= 0)
    IN [i \in 1..Len(v) |-> v[i].segundos]

PefReturned == pc = "pef_returned" /\ result.has_operational_data

\* the signed minutes between the instants of a cleaned row, when both exist
HasInstants(row) == ~row.llegada.nat /\ ~row.salida.nat
SignedMinutes(row) == row.salida.t - row.llegada.t
IsValidRecord(row) == HasInstants(row) /\ SignedMinutes(row) >= 0

\* C1: every record of process_excel_file is flagged valid exactly when its
\* signed duration is >= 0, and a zero-duration record is counted in the
\* valid_records of its technician.
C1_ValidIffNonNegative ==
    PefReturned =>
        \A i \in 1..Len(result.officers) :
            LET e == result.officers[i]
            IN /\ \A j \in 1..Len(e.records) :
                      e.records[j].valido <=> (e.records[j].segundos >= 0)
               /\ e.valid_records = Len(NonNegativeSeconds(e))

\* the statistics of the records of a group that have a duration >= 0
ExpectedAggRow(k, rows, col) ==
    LET g == SelectSeq(rows, LAMBDA r : CellOf(r, col) = k /\ IsValidRecord(r))
        ds == [i \in 1..Len(g) |-> SignedMinutes(g[i])]
    IN [key |-> k,
        count |-> Len(ds),
        mean |-> IF ds = <<>> THEN [nan |-> TRUE, num |-> 0, den |-> 1]
                 ELSE [nan |-> FALSE, num |-> SumSeq(ds), den |-> Len(ds)],
        min |-> IF ds = <<>> THEN NaN ELSE Num(MinSeq(ds)),
        max |-> IF ds = <<>> THEN NaN ELSE Num(MaxSeq(ds))]

\* C2: every group statistic is computed over exactly the records of the
\* group whose duration is >= 0: count, mean, min and max of both
\* aggregations, and valid_records, avg_time and total_time of each technician
\* of process_excel_file.
C2_StatsOverNonNegative ==
    /\ PefReturned =>
          \A i \in 1..Len(result.officers) :
              LET e == result.officers[i]
                  nn == NonNegativeSeconds(e)
              IN /\ e.valid_records = Len(nn)
                 /\ e.avg_time = IF nn = <<>> THEN NA ELSE HorasMinutos(SumSeq(nn), Len(nn))
                 /\ e.total_time = IF nn = <<>> THEN NA ELSE HorasMinutos(SumSeq(nn), 1)
    /\ (pc \in {"qt_aggregated", "qt_done"} /\ avg_by_tech.error = "none") =>
          \A i \in 1..Len(avg_by_tech.rows) :
              avg_by_tech.rows[i] =
                  ExpectedAggRow(avg_by_tech.rows[i].key, df_clean.rows, ColTech)
    /\ (pc \in {"qt_aggregated", "qt_done"} /\ avg_by_model.error = "none") =>
          \A i \in 1..Len(avg_by_model.rows) :
              avg_by_model.rows[i] =
                  ExpectedAggRow(avg_by_model.rows[i].key, df_clean.rows, ColModelo)

Counts(rows) == SumSeq([i \in 1..Len(rows) |-> rows[i].count])
NumValid(rows) == Len(SelectSeq(rows, IsValidRecord))

\* C3: in each grouping the count of a key is the number of valid records
\* with that key, and the counts of the emitted rows add up to the number of
\* valid records of the dataset, records with an empty key cell included.
C3_CountsPartitionValidRecords ==
    /\ (pc \in {"qt_aggregated", "qt_done"} /\ avg_by_tech.error = "none") =>
          /\ \A i \in 1..Len(avg_by_tech.rows) :
                avg_by_tech.rows[i].count =
                    Len(SelectSeq(df_clean.rows,
                          LAMBDA r : r.tech = avg_by_tech.rows[i].key /\ IsValidRecord(r)))
          /\ Counts(avg_by_tech.rows) = NumValid(df_clean.rows)
    /\ (pc \in {"qt_aggregated", "qt_done"} /\ avg_by_model.error = "none") =>
          /\ \A i \in 1..Len(avg_by_model.rows) :
                avg_by_model.rows[i].count =
                    Len(SelectSeq(df_clean.rows,
                          LAMBDA r : r.modelo = avg_by_model.rows[i].key /\ IsValidRecord(r)))
          /\ Counts(avg_by_model.rows) = NumValid(df_clean.rows)
    /\ PefReturned =>
          SumSeq([i \in 1..Len(result.officers) |-> result.officers[i].valid_records])
              = Len(SelectSeq(df_filtered, LAMBDA r : r.estadia >= 0))

QtCalculated == pc \in {"qt_calculated", "qt_aggregated", "qt_done"}
QtAnalyzed == pc = "qt_done" /\ anomalies.error = "none"

\* C4: identify_anomalies(df, k) returns exactly the records with
\* d < Q1 - k*IQR, tagged 'Corta', or d > Q3 + k*IQR, tagged 'Larga'; every
\* other record, one on a bound included, is absent.  Quantities are
\* compared after multiplying by 4 * den(k).  (For k < -1/2 a record can
\* satisfy both conditions; it then carries either of the two tags.)
C4_AnomaliesExactlyOutsideBounds ==
    QtAnalyzed =>
        LET rows == df_result.rows
            ds == Durations(rows)
            kn == threshold_factor[1]
            kd == threshold_factor[2]
            Q1 == Quantile4(ds, 1)
            Q3 == Quantile4(ds, 3)
            Below(r) ==
                /\ ~r.duracion.nan /\ ds # <<>>
                /\ 4 * kd * r.duracion.v < kd * Q1 - kn * (Q3 - Q1)
            Above(r) ==
                /\ ~r.duracion.nan /\ ds # <<>>
                /\ 4 * kd * r.duracion.v > kd * Q3 + kn * (Q3 - Q1)
            sel == SelectSeq(rows, LAMBDA r : Below(r) \/ Above(r))
        IN /\ Len(anomalies.rows) = Len(sel)
           /\ \A i \in 1..Len(sel) :
                 /\ anomalies.rows[i].row = sel[i]
                 /\ anomalies.rows[i].tipo \in {"Corta", "Larga"}
                 /\ anomalies.rows[i].tipo = "Corta" => Below(sel[i])
                 /\ anomalies.rows[i].tipo = "Larga" => Above(sel[i])

\* a run with the default k that reports a long record and leaves others out
C4_Witness ==
    /\ QtAnalyzed
    /\ threshold_factor = DefaultThreshold
    /\ \E i \in 1..Len(anomalies.rows) : anomalies.rows[i].tipo = "Larga"
    /\ Len(anomalies.rows) < Len(Durations(df_result.rows))

\* the rows process_excel_file normalizes from the raw table
NormalizedRows(table) == DropNaT(ToDatetimeRows(DropNa(table.rows, RequiredSet)))
IsNegativeRow(row) == HasInstants(row) /\ SignedMinutes(row) < 0

\* the entries of result for officer k (none or one)
EntriesOf(k) == SelectSeq(result.officers, LAMBDA e : e.officer = k)

\* process_excel_file keeps every negative-duration record of every officer,
\* with its instants, its signed seconds, the invalid flag and the marker
PefKeepsNegative ==
    PefReturned =>
        \A k \in KeySet :
            LET neg == SelectSeq(NormalizedRows(df), LAMBDA r : r.tech = k /\ IsNegativeRow(r))
            IN neg # <<>> =>
                 /\ Len(EntriesOf(k)) = 1
                 /\ LET recs == SelectSeq(EntriesOf(k)[1].records, LAMBDA r : r.segundos < 0)
                    IN /\ Len(recs) = Len(neg)
                       /\ \A j \in 1..Len(neg) : \E i \in 1..Len(recs) :
                             /\ recs[i].llegada = neg[j].llegada
                             /\ recs[i].salida = neg[j].salida
                             /\ recs[i].segundos = 60 * SignedMinutes(neg[j])
                       /\ \A i \in 1..Len(recs) :
                             ~recs[i].valido /\ recs[i].tiempo.anomalia

\* C5: a record whose departure precedes its arrival is still
\* present after the duration calculation, carries its signed negative
\* duration and is tagged invalid, in process_excel_file and in
\* calculate_service_duration.
C5_NegativeKeptSigned ==
    /\ PefKeepsNegative
    /\ QtCalculated =>
          /\ Len(df_result.rows) = Len(df_clean.rows)
          /\ \A i \in 1..Len(df_clean.rows) :
                IsNegativeRow(df_clean.rows[i]) =>
                    df_result.rows[i].duracion = Num(SignedMinutes(df_clean.rows[i]))

\* C6: every row whose departure precedes its arrival appears in
\* the output of identify_anomalies after calculate_service_duration.
C6_NegativeAlwaysReported ==
    QtAnalyzed =>
        \A i \in 1..Len(df_clean.rows) :
            IsNegativeRow(df_clean.rows[i]) =>
                \E j \in 1..Len(anomalies.rows) : anomalies.rows[j].row = df_result.rows[i]

\* C7: when a required column (technician, arrival, departure) is absent,
\* processing halts with the schema error before any row is filtered,
\* parsed or aggregated, in process_excel_file and in the window's
\* load_excel_file (no duration computed, no tab updated).
C7_SchemaErrorBeforeRowWork ==
    /\ (pc \in {"pef_validated", "pef_filtered", "pef_parsed", "pef_durations",
                "pef_affiliates", "pef_returned"} \/ rowWork # {})
          => MissingColumns(df.cols, required_columns) = <<>>
    /\ (last_load.outcome \in {"warning", "loaded"}
        /\ MissingColumns(last_load.cols, required_columns) # <<>>)
          => (last_load.outcome = "warning" /\ last_load.steps = {})

\* C8: the schema error names every absent required column.
C8_ErrorNamesEveryMissingColumn ==
    /\ (pc = "pef_raised" /\ MissingColumns(df.cols, required_columns) # <<>>)
          => error.columns = MissingColumns(df.cols, required_columns)
    /\ (pc = "qt_raised" /\ MissingColumns(df.cols, time_columns) # <<>>)
          => error.columns = MissingColumns(df.cols, time_columns)

\* C9: every record that reaches the duration calculation, the aggregates or
\* the output has a non-null arrival and a non-null departure, and none is
\* kept with a null duration because of an unparsable timestamp; in
\* process_excel_file and in clean_time_data + calculate_service_duration.
C9_NoNullInstantRetained ==
    /\ pc \in {"pef_durations", "pef_affiliates", "pef_returned"} =>
          /\ \A i \in 1..Len(df_filtered) : HasInstants(df_filtered[i])
          /\ \A i \in 1..Len(result.officers) :
                \A j \in 1..Len(result.officers[i].records) :
                    HasInstants(result.officers[i].records[j])
    /\ QtCalculated =>
          \A i \in 1..Len(df_result.rows) : HasInstants(df_result.rows[i])

\* a table with every required column, a technician in every row and an
\* unreadable arrival or departure in every row
AllMalformed(table) ==
    /\ MissingColumns(table.cols, required_columns) = <<>>
    /\ table.rows # <<>>
    /\ \A i \in 1..Len(table.rows) :
          /\ table.rows[i].tech # NoKey
          /\ ~IsNullCell(table.rows[i].llegada) /\ ~IsNullCell(table.rows[i].salida)
          /\ (table.rows[i].llegada.fmt = "bad" \/ table.rows[i].salida.fmt = "bad")

\* C10: on such a table the engine returns normally with zero normalized
\* records, no aggregate row for any technician or terminal model and an
\* empty anomaly list.
C10_AllMalformedYieldsEmptyResult ==
    AllMalformed(df) =>
        /\ pc \notin {"pef_raised", "qt_raised"}
        /\ pc \in {"pef_durations", "pef_affiliates", "pef_returned"} => df_filtered = <<>>
        /\ pc = "pef_returned" => (result.returned /\ result.officers = <<>>)
        /\ QtCalculated => df_result.rows = <<>>
        /\ pc \in {"qt_aggregated", "qt_done"} =>
              (avg_by_tech.rows = <<>> /\ avg_by_model.rows = <<>>)
        /\ pc = "qt_done" => (anomalies.error = "none" /\ anomalies.rows = <<>>)

\* C11: whenever process_excel_file leaves no qualifying record (every row
\* dropped for an empty cell, or every row dropped for an unparsable
\* timestamp), process_data shows the 'no valid data' warning and does not
\* call generate_pdf_report.
C11_NoReportFromEmptyRecords ==
    (report # NoReport /\ pc = "pef_returned" /\ result.officers = <<>>) =>
        (report.message = "showwarning" /\ ~report.generate_pdf_report)

\* C12: no aggregate row is emitted for a key without a valid record: every
\* row of the two aggregations has count >= 1 and every technician entry of
\* process_excel_file has valid_records >= 1.
C12_NoRowForKeyWithoutValidRecord ==
    /\ (pc \in {"qt_aggregated", "qt_done"} /\ avg_by_tech.error = "none") =>
          \A i \in 1..Len(avg_by_tech.rows) : avg_by_tech.rows[i].count >= 1
    /\ (pc \in {"qt_aggregated", "qt_done"} /\ avg_by_model.error = "none") =>
          \A i \in 1..Len(avg_by_model.rows) : avg_by_model.rows[i].count >= 1
    /\ PefReturned =>
          \A i \in 1..Len(result.officers) : result.officers[i].valid_records >= 1

\* the rows of the analysed table that satisfy either bound condition, the
\* conditions evaluated on the scaled quantities of the code's bounds
OutsideBounds(rows, k) ==
    LET b == Bounds(rows, k)
    IN SelectSeq(rows, LAMBDA r :
           /\ ~r.duracion.nan /\ ~b.nan
           /\ (r.duracion.v * b.scale < b.lower \/ r.duracion.v * b.scale > b.upper))

\* C13: every row returned by identify_anomalies carries exactly one
\* classification, 'Corta' or 'Larga', never 'Normal'; each input row outside
\* the bounds is returned once, so none is classified twice; for every input
\* and every threshold_factor.
C13_ExactlyOneClassification ==
    QtAnalyzed =>
        /\ \A j \in 1..Len(anomalies.rows) : anomalies.rows[j].tipo \in {"Corta", "Larga"}
        /\ Len(anomalies.rows) = Len(OutsideBounds(df_result.rows, threshold_factor))
        /\ Len(SelectSeq(anomalies.rows, LAMBDA a : a.tipo = "Corta"))
             + Len(SelectSeq(anomalies.rows, LAMBDA a : a.tipo = "Larga"))
               = Len(anomalies.rows)

\* a reported row that is below the lower bound and above the upper bound at
\* once (negative threshold_factor), and a row reported 'Corta'
C13_Witness ==
    /\ QtAnalyzed
    /\ threshold_factor[1] < 0
    /\ LET b == Bounds(df_result.rows, threshold_factor)
       IN \E j \in 1..Len(anomalies.rows) :
             /\ anomalies.rows[j].row.duracion.v * b.scale < b.lower
             /\ anomalies.rows[j].row.duracion.v * b.scale > b.upper
             /\ anomalies.rows[j].tipo = "Larga"

\* C14: with Q1 = 10, Q3 = 20 and k = 1.5 the bounds are -5 and 35; a record
\* of duration 40 is returned tagged 'Larga' and a record of duration 30 is
\* not returned.
C14_BoundsExample ==
    (/\ QtAnalyzed
     /\ threshold_factor = DefaultThreshold
     /\ Durations(df_result.rows) # <<>>
     /\ Quantile4(Durations(df_result.rows), 1) = 4 * 10
     /\ Quantile4(Durations(df_result.rows), 3) = 4 * 20) =>
        LET b == Bounds(df_result.rows, threshold_factor)
        IN /\ ~b.nan
           /\ b.lower = (-5) * b.scale
           /\ b.upper = 35 * b.scale
           /\ \A i \in 1..Len(df_result.rows) :
                 /\ df_result.rows[i].duracion = Num(40) =>
                       \E j \in 1..Len(anomalies.rows) :
                           anomalies.rows[j] = [row |-> df_result.rows[i], tipo |-> "Larga"]
                 /\ df_result.rows[i].duracion = Num(30) =>
                       \A j \in 1..Len(anomalies.rows) :
                           anomalies.rows[j].row # df_result.rows[i]

\* the example distribution analysed with the default factor: it holds a
\* record of 30 minutes and the record of 40 minutes is the one reported
C14_Witness ==
    /\ QtAnalyzed
    /\ df = QuartileExample
    /\ threshold_factor = DefaultThreshold
    /\ \E i \in 1..Len(df_result.rows) : df_result.rows[i].duracion = Num(30)
    /\ Len(anomalies.rows) = 1
    /\ anomalies.rows[1].row.duracion = Num(40)

\* the cleaned table without its negative-duration rows
WithoutNegative(table) ==
    [cols |-> table.cols, rows |-> SelectSeq(table.rows, LAMBDA r : ~IsNegativeRow(r))]

\* the rows of a sequence of rows that carry a duration
RowsWithDuration(rows) == SelectSeq(rows, LAMBDA r : ~r.duracion.nan)

\* C15: after calculate_service_duration the quartiles and bounds of
\* identify_anomalies are those of the non-negative durations only: bounds
\* and reported records are the same as for the table with the
\* negative-duration rows removed.
C15_BoundsIgnoreNegative ==
    QtAnalyzed =>
        LET other == calculate_service_duration(WithoutNegative(df_clean))
        IN /\ Bounds(df_result.rows, threshold_factor)
                = Bounds(other.rows, threshold_factor)
           /\ RowsWithDuration(df_result.rows) = RowsWithDuration(other.rows)
           /\ anomalies = identify_anomalies(other, threshold_factor)

\* an analysis with reported rows of a table holding a negative-duration row
\* next to at least two valid ones
C15_Witness ==
    /\ QtAnalyzed
    /\ \E i \in 1..Len(df_clean.rows) : IsNegativeRow(df_clean.rows[i])
    /\ Len(RowsWithDuration(df_result.rows)) >= 2
    /\ anomalies.rows # <<>>

\* the values of a duration column all of whose order statistics from the
\* first to the third quartile position coincide: Q1 = Q3
IsDegenerate(rows) ==
    /\ Durations(rows) # <<>>
    /\ Quantile4(Durations(rows), 1) = Quantile4(Durations(rows), 3)

\* C16: when Q1 = Q3 identify_anomalies raises no error, both bounds equal
\* Q1, and exactly the records whose duration differs from Q1 are returned,
\* those below tagged 'Corta' and those above tagged 'Larga', however few
\* records there are.
C16_DegenerateQuartiles ==
    (pc = "qt_done" /\ IsDegenerate(df_result.rows)) =>
        LET Q1x4 == Quantile4(Durations(df_result.rows), 1)
            b == Bounds(df_result.rows, threshold_factor)
            differ == SelectSeq(df_result.rows,
                                LAMBDA r : ~r.duracion.nan /\ 4 * r.duracion.v # Q1x4)
        IN /\ anomalies.error = "none"
           /\ b.lower = b.upper
           /\ b.lower * 4 = Q1x4 * b.scale
           /\ anomalies.rows =
                 [i \in 1..Len(differ) |->
                     [row |-> differ[i],
                      tipo |-> IF 4 * differ[i].duracion.v < Q1x4 THEN "Corta" ELSE "Larga"]]

\* a degenerate distribution with a record below and a record above Q1
C16_Witness ==
    /\ pc = "qt_done"
    /\ IsDegenerate(df_result.rows)
    /\ \E j \in 1..Len(anomalies.rows) : anomalies.rows[j].tipo = "Corta"
    /\ \E j \in 1..Len(anomalies.rows) : anomalies.rows[j].tipo = "Larga"

\* the records of every officer entry that are flagged invalid
InvalidRecords(officers) ==
    {<<i, j>> \in (1..Len(officers)) \X (1..3) :
        j <= Len(officers[i].records) /\ ~officers[i].records[j].valido}

\* C17: for (A, 09:00 -> 09:30), (A, 10:00 -> 09:45), (B, 08:00 -> 08:20)
\* technician A has valid count 1 and mean 30 minutes, B has valid count 1
\* and mean 20 minutes, and exactly one record is anomalous: the
\* negative-duration row of A, flagged invalid (process_excel_file), left
\* without a duration (calculate_service_duration).
C17_ThreeRowExample ==
    df = ThreeRowExample =>
        /\ PefReturned =>
              /\ Len(result.officers) = 2
              /\ result.officers[1].officer = "A"
              /\ result.officers[1].valid_records = 1
              /\ result.officers[1].avg_time = [na |-> FALSE, horas |-> 0, minutos |-> 30]
              /\ result.officers[2].officer = "B"
              /\ result.officers[2].valid_records = 1
              /\ result.officers[2].avg_time = [na |-> FALSE, horas |-> 0, minutos |-> 20]
              /\ Cardinality(InvalidRecords(result.officers)) = 1
              /\ \E j \in 1..Len(result.officers[1].records) :
                    /\ result.officers[1].records[j].segundos = -900
                    /\ ~result.officers[1].records[j].valido
                    /\ result.officers[1].records[j].tiempo.anomalia
        /\ pc \in {"qt_aggregated", "qt_done"} =>
              /\ avg_by_tech.error = "none"
              /\ Len(avg_by_tech.rows) = 2
              /\ \E i \in 1..2 :
                    /\ avg_by_tech.rows[i].key = "A"
                    /\ avg_by_tech.rows[i].count = 1
                    /\ avg_by_tech.rows[i].mean = [nan |-> FALSE, num |-> 30, den |-> 1]
              /\ \E i \in 1..2 :
                    /\ avg_by_tech.rows[i].key = "B"
                    /\ avg_by_tech.rows[i].count = 1
                    /\ avg_by_tech.rows[i].mean = [nan |-> FALSE, num |-> 20, den |-> 1]
              /\ {i \in 1..Len(df_result.rows) : df_result.rows[i].duracion.nan} = {2}
              /\ df_result.rows[2].tech = "A"

\* process_excel_file has returned for the three-row input
C17_Witness ==
    /\ df = ThreeRowExample
    /\ PefReturned
    /\ Len(result.officers[1].records) = 2

\* the order in which lines 45-61 nest the conversions
FallbackOrder == <<"12z", "12", "24", "coerce">>

\* a conversion with a format succeeds when every text of the column is in
\* that encoding; coercion always succeeds
Succeeds(cells, f) == f = "coerce" \/ \A i \in 1..Len(cells) : cells[i].fmt = f

\* the values a successful conversion gives. With a format: the time of day
\* on 1900-01-01, for the first encoding at UTC-06:00, that is six hours
\* later in UTC. Under coercion: NaT for a text that cannot be read, else the
\* time of day on the current date, for a text with the offset at UTC+06:00
\* (the sign dateutil gives it), that is six hours earlier in UTC
ParsedAs(cells, f) ==
    [i \in 1..Len(cells) |->
        IF f = "12z" THEN [nat |-> FALSE, t |-> cells[i].t + 360, aware |-> TRUE]
        ELSE IF f \in {"12", "24"} THEN [nat |-> FALSE, t |-> cells[i].t, aware |-> FALSE]
        ELSE IF cells[i].fmt = "bad" THEN NaT
        ELSE IF cells[i].fmt = "12z"
        THEN [nat |-> FALSE, t |-> TodayOffset + cells[i].t - 360, aware |-> TRUE]
        ELSE [nat |-> FALSE, t |-> TodayOffset + cells[i].t, aware |-> FALSE]]

\* C18: each timestamp column of texts is converted by trying 12-hour with
\* offset, 12-hour, 24-hour, coercion, in that order; an encoding is tried
\* only after every earlier one failed; the first that succeeds gives the
\* parsed values; under coercion an unreadable text becomes NaT and nothing
\* is raised by the conversion.
C18_FallbackOrder ==
    /\ pc = "pef_parsed" =>
          \A c \in {ColLlegada, ColSalida} :
              LET cells == Column(DropNa(df.rows, RequiredSet), c)
                  tried == attempts[c]
                  parsed == Column(df_filtered, c)
              IN ~IsDatetimeDtype(cells) =>
                    /\ tried # <<>>
                    /\ tried = SubSeq(FallbackOrder, 1, Len(tried))
                    /\ \A j \in 1..(Len(tried) - 1) : ~Succeeds(cells, tried[j])
                    /\ Succeeds(cells, tried[Len(tried)])
                    /\ parsed = ParsedAs(cells, tried[Len(tried)])
    /\ (pc = "pef_raised" /\ MissingColumns(df.cols, required_columns) = <<>>) =>
          "duration" \in rowWork

\* a column of texts with and without an offset that went through all four
\* conversions, next to a column of an unreadable and a readable text
C18_Witness ==
    /\ pc = "pef_parsed"
    /\ attempts[ColLlegada] = FallbackOrder
    /\ IsObjectColumn(Column(df_filtered, ColLlegada))
    /\ attempts[ColSalida] = FallbackOrder
    /\ \E i \in 1..Len(df_filtered) : df_filtered[i].salida.nat
    /\ \E i \in 1..Len(df_filtered) : ~df_filtered[i].salida.nat

\* a raw cell that can be read as a timestamp
IsReadable(c) == c.fmt \notin {"null", "bad"}

\* C19: for a table that has the required columns no cell content makes the
\* engine fail: neither process_excel_file nor clean_time_data +
\* calculate_service_duration raises, and process_excel_file keeps exactly
\* the rows whose technician, arrival and departure can be read.
C19_NoCellContentFails ==
    MissingColumns(df.cols, required_columns) = <<>> =>
        /\ pc \notin {"pef_raised", "qt_raised"}
        /\ pc \in {"pef_durations", "pef_affiliates"} =>
              Len(df_filtered) =
                  Len(SelectSeq(df.rows, LAMBDA r :
                        r.tech # NoKey /\ IsReadable(r.llegada) /\ IsReadable(r.salida)))

\* C20: the engine operations leave the table passed to them as it was:
\* clean_time_data(df), calculate_service_duration(df_clean), the two
\* aggregations and identify_anomalies(df_result), returning or raising.
C20_ArgumentsNotModified ==
    [][/\ QT_Clean => df' = df
       /\ QT_Calculate => df_clean' = df_clean
       /\ QT_Aggregate => df_result' = df_result
       /\ QT_Anomalies => df_result' = df_result]_vars

\* the whole pipeline has run on a table of texts: timestamps converted in a
\* copy, durations added to a copy, rows tagged, and each table passed along
\* differs from the table returned from it
C20_Witness ==
    /\ QtAnalyzed
    /\ anomalies.rows # <<>>
    /\ ColDuracion \notin df.cols /\ ColDuracion \notin df_clean.cols
    /\ ColDuracion \in df_result.cols
    /\ df # df_clean
    /\ \A i \in 1..Len(df.rows) : df.rows[i].llegada = TimeCell("24", df.rows[i].llegada.t)


\* C21: an absent optional column set raises no error and leaves the
\* corresponding part out of the result: without the affiliate-name and
\* report-date columns process_excel_file returns no affiliate entry, and
\* without a terminal-model column get_average_duration_by_terminal_model
\* returns no table instead of raising
C21_AbsentOptionalColumnsOmitted ==
    /\ (PefReturned /\ ~({ColAfiliado, ColFecha} \subseteq df.cols))
          => result.affiliates = <<>>
    /\ (avg_by_model # NotCalled /\ RequiredSet \subseteq df_result.cols
           /\ df_result.rows # <<>> /\ terminal_columns(df_result.cols) = {})
          => avg_by_model = Returned(<<>>)


\* the position of a group key in the order groupby yields the groups
KeyPosition(k) == CHOOSE i \in 1..Len(Keys) : Keys[i] = k

\* consecutive rows have non-decreasing means
AscendingByMean(rows) ==
    \A i \in 1..(Len(rows) - 1) :
        /\ ~rows[i].mean.nan
        /\ ~rows[i + 1].mean.nan
        /\ ~KeyLess(rows[i + 1].mean, rows[i].mean)

\* rows with equal means are in the order of their group keys
StableByKey(rows) ==
    \A i, j \in 1..Len(rows) :
        (i < j /\ SameKey(rows[i].mean, rows[j].mean)) =>
            KeyPosition(rows[i].key) < KeyPosition(rows[j].key)

\* C22: the two aggregations return their rows in ascending order of the
\* mean duration, mean(r) <= mean(s) for consecutive rows r, s, and rows with
\* equal means keep the relative order of their group keys
C22_AscendingStableOrder ==
    \A r \in {avg_by_tech, avg_by_model} :
        r.error = "none" => (AscendingByMean(r.rows) /\ StableByKey(r.rows))


\* the number of records of an entry with the given validity flag
Flagged(e, flag) == Cardinality({j \in 1..Len(e.records) : e.records[j].valido = flag})

\* C23: every normalized record yields exactly one duration entry: each
\* technician of the normalized rows has one entry in the result, whose
\* total_records is the number of normalized rows of that technician and the
\* length of records, whose valid_records is the number of records flagged
\* valid, between 0 and total_records, and the anomaly count of the report,
\* total_records - valid_records, is the number of records flagged invalid
C23_OneEntryPerNormalizedRecord ==
    (PefReturned /\ result.has_operational_data) =>
        LET normalized == NormalizedRows(df)
        IN /\ \A i \in 1..Len(normalized) :
                 Len(EntriesOf(normalized[i].tech)) = 1
           /\ \A i \in 1..Len(result.officers) :
                 LET e == result.officers[i]
                     own == SelectSeq(normalized, LAMBDA r : r.tech = e.officer)
                 IN /\ e.total_records = Len(own)
                    /\ e.total_records = Len(e.records)
                    /\ e.valid_records = Flagged(e, TRUE)
                    /\ 0 <= e.valid_records
                    /\ e.valid_records <= e.total_records
                    /\ RegistrosConAnomalias(e) = Flagged(e, FALSE)

\* an officer with two records, one of them flagged invalid
C23_Witness ==
    /\ PefReturned
    /\ \E i \in 1..Len(result.officers) :
          /\ result.officers[i].total_records = 2
          /\ result.officers[i].valid_records = 1
          /\ RegistrosConAnomalias(result.officers[i]) = 1


\* the affiliate-name and report-date columns of a table, nothing else
AffiliateColumns(table) ==
    [cols |-> {ColAfiliado, ColFecha},
     rows |-> [i \in 1..Len(table.rows) |->
                  Project(table.rows[i], {ColAfiliado, ColFecha})]]

\* C24: for a table with the affiliate-name and report-date columns the
\* affiliate list process_excel_file returns is a function of those two
\* columns of the raw table alone, whatever the technician and timestamp cells
\* hold, also when normalization drops rows, even all of them, or stays are
\* negative
C24_AffiliatesIndependentOfDurations ==
    (pc = "pef_returned" /\ result.returned /\ df.rows # <<>>
       /\ {ColAfiliado, ColFecha} \subseteq df.cols) =>
        result.affiliates = Affiliates(AffiliateColumns(df))


\* C28: process_file shows the success status, with the bar at 100, only
\* for a run in which process_data generated the PDF; a run that raised,
\* found no valid data or was cancelled at the save dialog never does: the
\* step in which a call ends with the success status and arms its reset
\* timer is taken from the success box of generate_pdf_report, nowhere else
C28_SuccessOnlyAfterPdf ==
    [][(reset_timers' > reset_timers /\ status_var' = Exito /\ progress_var' = 100)
          => report.message = "showinfo"]_vars

\* C29: the two anomaly markers of a record agree: the flag is false exactly
\* when the text carries the marker, so the rows painted by
\* generate_pdf_report are the rows painted by create_detail_table and the
\* records left out of the technician's statistics
C29_MarkersAgree ==
    (pc = "pef_returned" /\ result.returned) =>
        \A i \in 1..Len(result.officers) :
            LET records == result.officers[i].records
            IN /\ \A j \in 1..Len(records) :
                     ~records[j].valido <=> records[j].tiempo.anomalia
               /\ HighlightedByFlag(records) = HighlightedByMarker(records)
               /\ result.officers[i].valid_records =
                     Len(records) - Cardinality(HighlightedByMarker(records))

\* C30: generate_pdf_report writes one technician section per technician
\* that has records and nothing else as a technician: the sections are as
\* many as the distinct technician keys, with a page break after each but
\* the last
C30_OneSectionPerTechnician ==
    (report.message = "showinfo" /\ result.officers # <<>>) =>
        /\ report.sections = Len(GroupKeys(NormalizedRows(df), ColTech))
        /\ report.sections = Len(result.officers)
        /\ report.page_breaks = report.sections - 1


\* C25: from the start of a PDFExportThread until pdf_export_finished or
\* pdf_export_error runs, the load button and the export button are both
\* disabled, at most one worker is in flight, and self.df is still the table
\* the worker was handed
C25_ButtonsDisabledWhileExporting ==
    pdf_threads # <<>> =>
        /\ ~load_button
        /\ ~export_pdf_button
        /\ Len(pdf_threads) = 1
        /\ pdf_threads[1].df = self_df

\* an export of a loaded and analysed dataset is in flight and its worker
\* has run
C25_Witness ==
    /\ Len(pdf_threads) = 1
    /\ pdf_threads[1].ran
    /\ pdf_threads[1].df.rows # <<>>
    /\ ~load_button

\* every worker emits at most one signal and exactly one once it has run,
\* every export started is in flight or has had exactly one callback, and when
\* no export is in flight after one was started both buttons are enabled
ExactlyOneSignal ==
    /\ \A i \in 1..Len(pdf_threads) :
          /\ Len(pdf_threads[i].queue) <= 1
          /\ pdf_threads[i].ran => Len(pdf_threads[i].queue) = 1
    /\ exports.started = exports.finished + exports.failed + Len(pdf_threads)
    /\ (pdf_threads = <<>> /\ exports.started > 0) => (load_button /\ export_pdf_button)

\* C26: every export started by export_to_pdf ends with exactly one of the
\* two signals of PDFExportThread.run, never both and never none, after the
\* callback both buttons are enabled again, and the buttons never stay
\* disabled forever
C26_EveryExportTerminates ==
    /\ []ExactlyOneSignal
    /\ (pdf_threads # <<>>) ~> (pdf_threads = <<>> /\ load_button /\ export_pdf_button)
    /\ (~load_button \/ (~export_pdf_button /\ exports.started > 0))
          ~> (load_button /\ export_pdf_button)

\* an export has ended with the error signal, its callback has run and the
\* buttons are enabled again
C26_Witness ==
    /\ exports.started = 1
    /\ exports.failed = 1
    /\ pdf_threads = <<>>
    /\ load_button
    /\ export_pdf_button

\* C27: a load that fails (unreadable file, missing columns, analysis that
\* raises) leaves the window as it was: self.df is still the dataset the
\* tabs show, so self.df is always None or a dataset that passed validation
\* and carries the duration column
C27_FailedLoadKeepsDataset ==
    /\ self_df = tabs
    /\ \/ self_df = NoTable
       \/ /\ MissingColumns(self_df.cols, time_columns) = <<>>
          /\ ColDuracion \in self_df.cols

====
